---- MODULE Spec2Model ----
(***************************************************************************)
(* VMTerminal: the hypervisor Driver (pkg/hypervisor, KVM and vz           *)
(* implementations) and the VM lifecycle Manager (internal/vm/manager.go). *)
(*                                                                         *)
(* The specifications share the variables:                                 *)
(*   DriverSpec    a client calls the Driver's methods directly, in any    *)
(*                 order;                                                  *)
(*   Spec          callers use the Manager, which owns the Driver;         *)
(*   PrepareSpec   Prepare by successive Managers on the same directories; *)
(*   ValidateSpec  Driver.Validate on any VMConfig;                        *)
(*   SnapshotSpec  the SnapshotManager's operations on one VM's files,     *)
(*                 with failing file operations and crashes;               *)
(*   CatalogSpec   the same with DeleteSnapshot, ListSnapshots and         *)
(*                 GetSnapshot, without crashes;                           *)
(*   ConcurrentSpec  two processes inside SnapshotManager operations.      *)
(*   StateSpec     the Manager with failing writes of state.json;          *)
(*   EscapeSpec    EscapeReader.Read on the terminal's input               *)
(*                 (internal/terminal/terminal.go);                        *)
(*   CliSpec       the run and snapshot restore commands and the vm.pid    *)
(*                 file (internal/cli).                                    *)
(* FairDriverSpec and FairSpec add the fairness of the Go scheduler: a     *)
(* goroutine that can take its next step eventually takes it.              *)
(***************************************************************************)
EXTENDS Integers, Sequences, FiniteSets, TLC

\* ------------------------------------------------------------------ bounds
\* Driver.Start calls that may succeed in one behaviour (one channel each).
MaxStarts == 2
\* Driver.CloseConsole calls on one pair of console pipes.
MaxCloseCalls == 2
\* Concurrent callers of the Manager (or of the Driver in DriverSpec).
NumCallers == 2

\* Bytes the terminal supplies to the EscapeReader in one behaviour, and the
\* largest buffer a caller hands to Read.
MaxInput == 4
MaxBuf == 3
\* Concurrent invocations of the run command.
NumRuns == 2

Callers == 1..NumCallers

\* --------------------------------------------------------------- constants
\* hypervisor.VMConfig.Validate: minimum memory in MB.
MinMemoryMB == 128
\* NewManager defaults.
DefaultCPUs == 1
DefaultMemoryMB == 512

\* An error value; "none" is Go's nil error.
NoErr == "none"

VARIABLES
  platform,   \* "kvm" (driver_linux.go) or "vz" (driver_darwin.go)
  d,          \* the Driver object's fields
  vm,         \* the platform VM behind d.vm: its state, pending notifications
  chans,      \* the completion channels made by Start, in creation order
  watchers,   \* the exit-watcher goroutine spawned by each successful Start
  dret,       \* the Driver lifecycle call made by the last step, if any
  mcfg,       \* Manager.cfg after NewManager's defaults
  provider,   \* the distro provider (asset URLs, setup requirements)
  fs,         \* the files Prepare looks at
  mstate,     \* Manager.state
  lastErr,    \* Manager.lastErr
  errCh,      \* Manager.errCh: 0 is nil, else an index into chans
  pstate,     \* the PersistentState document (state.json)
  monitor,    \* the monitorVM goroutine
  pc,         \* each caller's position inside a Manager (or Driver) call
  ret,        \* the Manager call that returned in the last step, if any
  calls,      \* collaborator methods invoked by the last step
  val,        \* a VMConfig in a caller's hands and the last Validate of it
  disk,       \* data/<vm>/disk.raw, the live disk
  restoring,  \* data/<vm>/disk.raw.restoring
  arts,       \* data/<vm>/snapshots/<name>.raw.gz, per snapshot name
  tmps,       \* data/<vm>/snapshots/<name>.raw.gz.tmp, per snapshot name
  meta,       \* data/<vm>/snapshots.json, the metadata document
  metaTmp,    \* data/<vm>/snapshots.json.tmp
  sp,         \* the process inside a SnapshotManager operation
  sret,       \* the SnapshotManager operation that ended in the last step
  origin,     \* per snapshot name, the disk content its stored artifact was made from
  other,      \* a second process inside a SnapshotManager operation, not running
  er,         \* the EscapeReader on the terminal's input, and what it has read
  cli         \* the vm.pid file and the run and snapshot restore commands

dvars == <<platform, d, vm, chans, watchers>>
svars == <<disk, restoring, arts, tmps, meta, metaTmp, sp, sret, origin>>
xvars == <<val, svars, other, er, cli>>
mvars == <<mcfg, provider, fs, mstate, lastErr, errCh, pstate, monitor>>

\* state.json: missing, or the JSON of a PersistentState, by its keys.
NoStateFile ==
  [exists |-> FALSE, last_boot |-> FALSE, last_shutdown |-> FALSE, boot_count |-> 0,
   kernel_version |-> "", disk_size_mb |-> 0, clean_shutdown |-> FALSE]

\* StateFile.Load: the zero PersistentState for a missing file, else
\* json.Unmarshal into the struct fields by their tags.
StateFileLoad(f) ==
  IF ~f.exists
    THEN [LastBoot |-> FALSE, LastShutdown |-> FALSE, BootCount |-> 0,
          KernelVersion |-> "", DiskSizeMB |-> 0, CleanShutdown |-> FALSE]
    ELSE [LastBoot |-> f.last_boot, LastShutdown |-> f.last_shutdown,
          BootCount |-> f.boot_count, KernelVersion |-> f.kernel_version,
          DiskSizeMB |-> f.disk_size_mb, CleanShutdown |-> f.clean_shutdown]

\* StateFile.Save: json.MarshalIndent, written to state.json.tmp and renamed.
StateFileSave(st) ==
  [exists |-> TRUE, last_boot |-> st.LastBoot, last_shutdown |-> st.LastShutdown,
   boot_count |-> st.BootCount, kernel_version |-> st.KernelVersion,
   disk_size_mb |-> st.DiskSizeMB, clean_shutdown |-> st.CleanShutdown]

\* No Driver call, no returning Manager call.
NoDret == [op |-> "none", pre |-> "New", err |-> "none"]
NoRet == [op |-> "none", pre |-> "New", err |-> "none", path |-> "", envOK |-> FALSE]

\* A step of a goroutine that neither calls the Driver nor returns.
Quiet == dret' = NoDret /\ ret' = NoRet /\ calls' = {}
vars == <<platform, d, vm, chans, watchers, dret,
          mcfg, provider, fs, mstate, lastErr, errCh, pstate, monitor, pc, ret, calls,
          val, disk, restoring, arts, tmps, meta, metaTmp, sp, sret, origin, other, er, cli>>

\* ------------------------------------------------------------ driver world
\* The Driver's methods are operators from the driver world W (the Driver
\* object, the platform VM, the channels and the watchers) to the world
\* after the call plus the call's results.
World == [d |-> d, vm |-> vm, chans |-> chans, watchers |-> watchers]

\* driverState iota order.
stateRank(s) ==
  CASE s = "New" -> 0
    [] s = "Created" -> 1
    [] s = "Running" -> 2
    [] s = "Stopped" -> 3

\* consoleIn, consoleOut: d.consoleIn and d.inputWriter, d.consoleOut and
\* d.outputReader are set (they are assigned and cleared together).
\* inputWriterCloses, outputReaderCloses: the Close calls made so far on the
\* pipe ends of the latest os.Pipe pair; closeConsoleCalls: the CloseConsole
\* calls since that pair was made.
NewDriver ==
  [state |-> "New", cancel |-> 0, diskFile |-> FALSE,
   consoleIn |-> FALSE, consoleOut |-> FALSE,
   inputWriterCloses |-> 0, outputReaderCloses |-> 0, closeConsoleCalls |-> 0]

\* Mutant of VMConfigValidate: the kernel path is not looked at.
VMConfigValidateAnyKernel(c) ==
  IF c.CPUs < 1 THEN [cfg |-> c, err |-> "ErrInvalidCPUCount"]
  ELSE IF c.MemoryMB < MinMemoryMB THEN [cfg |-> c, err |-> "ErrInsufficientMemory"]
  ELSE [cfg |-> c, err |-> NoErr]

\* VMConfig.Validate: the (possibly defaulted) configuration and the error.
VMConfigValidate(c) ==
  IF c.CPUs < 1 THEN [cfg |-> c, err |-> "ErrInvalidCPUCount"]
  ELSE IF c.MemoryMB < MinMemoryMB THEN [cfg |-> c, err |-> "ErrInsufficientMemory"]
  ELSE IF c.Kernel = "" THEN [cfg |-> c, err |-> "ErrMissingKernel"]
  ELSE IF c.EnableNetwork
    THEN LET c2 == IF c.NetworkMode = "" THEN [c EXCEPT !.NetworkMode = "nat"] ELSE c
         IN IF c2.NetworkMode # "nat" /\ c2.NetworkMode # "bridged"
              THEN [cfg |-> c2, err |-> "ErrInvalidNetworkMode"]
              ELSE [cfg |-> c2, err |-> NoErr]
    ELSE [cfg |-> c, err |-> NoErr]

\* kvmDriver.Validate / vzDriver.Validate. kernelExists: os.Stat(cfg.Kernel).
DriverValidate(p, c, kernelExists) ==
  LET r == VMConfigValidate(c)
  IN IF r.err # NoErr THEN r
     ELSE IF p = "kvm" /\ ~kernelExists THEN [cfg |-> r.cfg, err |-> "KernelNotFound"]
     ELSE r

\* Where a Create can fail in the platform calls it makes.
kvmCreateFails == {"none", "kernel", "initrd", "pipe_in", "pipe_out", "disk", "vm"}
vzCreateFails == {"none", "pre", "pipe_in", "pipe_out", "post"}
CreateFails(p) == IF p = "kvm" THEN kvmCreateFails ELSE vzCreateFails

\* Mutant of kvmCreate: the state check is missing.
kvmCreateAnyState(W, c, fail) ==
  IF fail # "none" \/ c.Kernel = "" THEN [W |-> W, err |-> "CreateVM"]
  ELSE [W |-> [W EXCEPT !.d = [W.d EXCEPT !.state = "Created", !.consoleIn = TRUE,
                                          !.consoleOut = TRUE,
                                          !.diskFile = (c.DiskPath # "")],
                        !.vm = [W.vm EXCEPT !.state = "Created"]],
        err |-> NoErr]

\* kvmDriver.Create.
kvmCreate(W, c, fail) ==
  IF W.d.state # "New" THEN [W |-> W, err |-> "InvalidStateForCreate"]
  ELSE IF fail = "kernel" \/ c.Kernel = "" THEN [W |-> W, err |-> "ReadKernel"]
  ELSE IF c.Initrd # "" /\ fail = "initrd" THEN [W |-> W, err |-> "ReadInitrd"]
  ELSE IF fail = "pipe_in" THEN [W |-> W, err |-> "CreateInputPipe"]
  ELSE IF fail = "pipe_out" THEN [W |-> W, err |-> "CreateOutputPipe"]
  ELSE LET d1 == [W.d EXCEPT !.consoleIn = TRUE, !.consoleOut = TRUE,
                             !.inputWriterCloses = 0, !.outputReaderCloses = 0,
                             !.closeConsoleCalls = 0]
       IN IF c.DiskPath # "" /\ fail = "disk"
            THEN [W |-> [W EXCEPT !.d = d1], err |-> "OpenDisk"]
          ELSE LET d2 == IF c.DiskPath # "" THEN [d1 EXCEPT !.diskFile = TRUE] ELSE d1
               IN IF fail = "vm"
                    THEN [W |-> [W EXCEPT !.d = [d2 EXCEPT !.diskFile = FALSE]],
                          err |-> "CreateVM"]
                    ELSE [W |-> [W EXCEPT !.d = [d2 EXCEPT !.state = "Created"],
                                          !.vm = [W.vm EXCEPT !.state = "Created"]],
                          err |-> NoErr]

\* vzDriver.Create. "pre": boot loader, VM or platform configuration;
\* "post": serial port, network, disk, shared directory, validation, VM.
vzCreate(W, c, fail) ==
  IF W.d.state # "New" THEN [W |-> W, err |-> "InvalidStateForCreate"]
  ELSE IF fail = "pre" THEN [W |-> W, err |-> "CreateConfig"]
  ELSE IF fail = "pipe_in" THEN [W |-> W, err |-> "CreateInputPipe"]
  ELSE IF fail = "pipe_out" THEN [W |-> W, err |-> "CreateOutputPipe"]
  ELSE LET d1 == [W.d EXCEPT !.consoleIn = TRUE, !.consoleOut = TRUE,
                             !.inputWriterCloses = 0, !.outputReaderCloses = 0,
                             !.closeConsoleCalls = 0]
       IN IF fail = "post"
            THEN [W |-> [W EXCEPT !.d = d1], err |-> "CreateDevice"]
            ELSE [W |-> [W EXCEPT !.d = [d1 EXCEPT !.state = "Created"],
                                  !.vm = [W.vm EXCEPT !.state = "Created"]],
                  err |-> NoErr]

DriverCreate(p, W, c, fail) ==
  IF p = "kvm" THEN kvmCreate(W, c, fail) ELSE vzCreate(W, c, fail)

NewChan == [buf |-> <<>>, sends |-> 0]
NewWatcher == [pc |-> "run", err |-> NoErr, cancelled |-> FALSE]

\* kvmDriver.Start: makes the channel, spawns the watcher (which enters
\* vm.Run), waits for it to have started, sets Running.
kvmStart(W) ==
  IF W.d.state # "Created" /\ W.d.state # "Stopped"
    THEN [W |-> W, err |-> "ErrNotCreated", ch |-> 0]
    ELSE LET c == Len(W.chans) + 1
         IN [W |-> [d |-> [W.d EXCEPT !.cancel = c, !.state = "Running"],
                    vm |-> [W.vm EXCEPT !.state = "Running"],
                    chans |-> Append(W.chans, NewChan),
                    watchers |-> Append(W.watchers, NewWatcher)],
             err |-> NoErr, ch |-> c]

\* vzDriver.Start. startOK: the outcome of d.vm.Start().
vzStart(W, startOK) ==
  IF W.d.state # "Created" /\ W.d.state # "Stopped"
    THEN [W |-> W, err |-> "ErrNotCreated", ch |-> 0]
  ELSE IF ~startOK THEN [W |-> W, err |-> "StartVM", ch |-> 0]
  ELSE LET c == Len(W.chans) + 1
       IN [W |-> [d |-> [W.d EXCEPT !.state = "Running"],
                  vm |-> [W.vm EXCEPT !.state = "Running"],
                  chans |-> Append(W.chans, NewChan),
                  watchers |-> Append(W.watchers, NewWatcher)],
           err |-> NoErr, ch |-> c]

DriverStart(p, W, startOK) ==
  IF p = "kvm" THEN kvmStart(W) ELSE vzStart(W, startOK)

\* The platform VM changes state: one more notification on the channel
\* StateChangedNotify returns. More pending notifications than watchers
\* that can take one make no difference, so the count saturates there.
Notify(v, s) == [v EXCEPT !.state = s, !.notif = IF v.notif < MaxStarts THEN v.notif + 1 ELSE MaxStarts]

\* kvmDriver.Stop: cancels the run context of the latest Start.
kvmStop(W) ==
  IF W.d.state # "Running" THEN [W |-> W, err |-> "ErrNotRunning"]
  ELSE LET ws == IF W.d.cancel # 0
                   THEN [W.watchers EXCEPT ![W.d.cancel].cancelled = TRUE]
                   ELSE W.watchers
       IN [W |-> [W EXCEPT !.watchers = ws, !.d = [W.d EXCEPT !.state = "Stopped"]],
           err |-> NoErr]

\* The outcomes of the platform calls vzDriver.Stop makes:
\* CanRequestStop (error, false, true) and RequestStop (error or refused,
\* accepted with the VM still Running, accepted with the VM now Stopping).
vzStopOutcomes == {"canstop_err", "cannot", "request_err", "requested", "stopping"}

\* vzDriver.Stop.
vzStop(W, out) ==
  IF W.d.state # "Running" THEN [W |-> W, err |-> "ErrNotRunning"]
  ELSE IF out = "canstop_err" THEN [W |-> W, err |-> "CheckCanStop"]
  ELSE IF out = "request_err" THEN [W |-> W, err |-> "RequestStopFailed"]
  ELSE LET v == IF out = "stopping" /\ W.vm.state = "Running"
                  THEN Notify(W.vm, "Stopping")
                  ELSE W.vm
       IN [W |-> [W EXCEPT !.vm = v, !.d = [W.d EXCEPT !.state = "Stopped"]],
           err |-> NoErr]

StopOutcomes(p) == IF p = "kvm" THEN {"cancel"} ELSE vzStopOutcomes

DriverStop(p, W, out) ==
  IF p = "kvm" THEN kvmStop(W) ELSE vzStop(W, out)

\* vzDriver.Kill. stopOK: the outcome of d.vm.Stop().
vzKill(W, stopOK) ==
  IF W.d.state # "Running" THEN [W |-> W, err |-> "ErrNotRunning"]
  ELSE IF ~stopOK THEN [W |-> W, err |-> "ForceStop"]
  ELSE LET v == IF W.vm.state \in {"Running", "Stopping"}
                  THEN Notify(W.vm, "Stopped")
                  ELSE W.vm
       IN [W |-> [W EXCEPT !.vm = v, !.d = [W.d EXCEPT !.state = "Stopped"]],
           err |-> NoErr]

\* kvmDriver.Kill, second half: closes the disk file under the lock.
kvmKillClose(W) == [W EXCEPT !.d = [W.d EXCEPT !.diskFile = FALSE]]

\* Driver.Console.
DriverConsole(W) ==
  IF ~W.d.consoleIn \/ ~W.d.consoleOut THEN "ConsoleNotInitialized" ELSE NoErr

\* Mutant of DriverCloseConsole: the fields are not set to nil, and Close
\* on a file that is closed already returns an error.
DriverCloseConsoleKeepsFields(W, fail) ==
  [W |-> [W EXCEPT !.d = [W.d EXCEPT
            !.inputWriterCloses = @ + (IF W.d.consoleIn THEN 1 ELSE 0),
            !.outputReaderCloses = @ + (IF W.d.consoleOut THEN 1 ELSE 0),
            !.closeConsoleCalls = @ + 1]],
   err |-> IF (W.d.consoleIn \/ W.d.consoleOut)
              /\ (fail \/ W.d.inputWriterCloses > 0 \/ W.d.outputReaderCloses > 0)
             THEN "CloseConsole" ELSE NoErr]

\* Driver.CloseConsole. fail: a Close it calls returns an error.
DriverCloseConsole(W, fail) ==
  [W |-> [W EXCEPT !.d = [W.d EXCEPT
            !.consoleIn = FALSE, !.consoleOut = FALSE,
            !.inputWriterCloses = @ + (IF W.d.consoleIn THEN 1 ELSE 0),
            !.outputReaderCloses = @ + (IF W.d.consoleOut THEN 1 ELSE 0),
            !.closeConsoleCalls = @ + 1]],
   err |-> IF fail /\ (W.d.consoleIn \/ W.d.consoleOut)
             THEN "CloseConsole" ELSE NoErr]

SetWorld(W) ==
  /\ d' = W.d
  /\ vm' = W.vm
  /\ chans' = W.chans
  /\ watchers' = W.watchers

\* ------------------------------------------------- watchers and platform VM
\* vm.Run(runCtx) returns in the KVM watcher: the guest halted or failed,
\* or the context was cancelled.
kvmRunReturns(c, e) ==
  /\ platform = "kvm"
  /\ c \in 1..Len(watchers)
  /\ watchers[c].pc = "run"
  /\ watchers' = [watchers EXCEPT ![c].pc = "lock", ![c].err = e]
  /\ vm' = [vm EXCEPT !.state = IF e = NoErr THEN "Stopped" ELSE "Error"]
  /\ Quiet
  /\ UNCHANGED <<xvars, platform, d, chans, mvars, pc>>

\* The vz watcher: one receive from StateChangedNotify, then a look at
\* vm.State(); it goes on only for Stopped or Error.
vzWatcherNotified(c) ==
  /\ platform = "vz"
  /\ c \in 1..Len(watchers)
  /\ watchers[c].pc = "run"
  /\ vm.notif > 0
  /\ vm' = [vm EXCEPT !.notif = vm.notif - 1]
  /\ watchers' = [watchers EXCEPT
                    ![c].pc = IF vm.state \in {"Stopped", "Error"} THEN "lock" ELSE "done"]
  /\ Quiet
  /\ UNCHANGED <<xvars, platform, d, chans, mvars, pc>>

\* Both watchers: d.mu.Lock(); d.state = stateStopped; d.mu.Unlock().
WatcherSetStopped(c) ==
  /\ c \in 1..Len(watchers)
  /\ watchers[c].pc = "lock"
  /\ d' = [d EXCEPT !.state = "Stopped"]
  /\ watchers' = [watchers EXCEPT ![c].pc = "send"]
  /\ Quiet
  /\ UNCHANGED <<xvars, platform, vm, chans, mvars, pc>>

\* Mutant of WatcherSend: the watcher stays at its send and sends again.
WatcherSendAgain(c) ==
  /\ c \in 1..Len(watchers)
  /\ watchers[c].pc \in {"send", "done"}
  /\ Len(chans[c].buf) < 1
  /\ chans[c].sends < 2
  /\ chans' = [chans EXCEPT ![c].buf = Append(@, NoErr), ![c].sends = @ + 1]
  /\ watchers' = [watchers EXCEPT ![c].pc = "done"]
  /\ Quiet
  /\ UNCHANGED <<xvars, platform, d, vm, mvars, pc>>

\* Both watchers: errCh <- err, on a channel of capacity 1; the value sent
\* is Run's error on KVM, always nil on vz.
WatcherSend(c) ==
  /\ c \in 1..Len(watchers)
  /\ watchers[c].pc = "send"
  /\ Len(chans[c].buf) < 1
  /\ chans' = [chans EXCEPT ![c].buf = Append(@, IF platform = "kvm" THEN watchers[c].err ELSE NoErr),
                            ![c].sends = @ + 1]
  /\ watchers' = [watchers EXCEPT ![c].pc = "done"]
  /\ Quiet
  /\ UNCHANGED <<xvars, platform, d, vm, mvars, pc>>

\* The vz guest powers off (by itself or honouring a stop request).
vzGuestStops ==
  /\ platform = "vz"
  /\ vm.state \in {"Running", "Stopping"}
  /\ vm' = Notify(vm, "Stopped")
  /\ Quiet
  /\ UNCHANGED <<xvars, platform, d, chans, watchers, mvars, pc>>

\* The vz VM fails.
vzGuestFails ==
  /\ platform = "vz"
  /\ vm.state = "Running"
  /\ vm' = Notify(vm, "Error")
  /\ Quiet
  /\ UNCHANGED <<xvars, platform, d, chans, watchers, mvars, pc>>

\* ------------------------------------------------ the Driver used directly
Idle == [at |-> "idle", err |-> NoErr, ch |-> 0]

DReturn(op, pre, e) ==
  dret' = [op |-> op, pre |-> pre, err |-> e] /\ ret' = NoRet /\ calls' = {}

DCreate(t, c, fail) ==
  /\ pc[t].at = "idle"
  /\ LET R == DriverCreate(platform, World, c, fail)
     IN SetWorld(R.W) /\ DReturn("Create", d.state, R.err)
  /\ UNCHANGED <<xvars, platform, mvars, pc>>

DStart(t, startOK) ==
  /\ pc[t].at = "idle"
  /\ Len(chans) < MaxStarts
  /\ LET R == DriverStart(platform, World, startOK)
     IN SetWorld(R.W) /\ DReturn("Start", d.state, R.err)
  /\ UNCHANGED <<xvars, platform, mvars, pc>>

DStop(t, out) ==
  /\ pc[t].at = "idle"
  /\ LET R == DriverStop(platform, World, out)
     IN SetWorld(R.W) /\ DReturn("Stop", d.state, R.err)
  /\ UNCHANGED <<xvars, platform, mvars, pc>>

\* Kill: atomic on vz; on KVM Stop() first, then the disk file is closed
\* in a second critical section, then Stop's error is returned.
DKill(t, stopOK) ==
  /\ pc[t].at = "idle"
  /\ IF platform = "vz"
       THEN LET R == vzKill(World, stopOK)
            IN SetWorld(R.W) /\ DReturn("Kill", d.state, R.err) /\ pc' = pc
       ELSE LET R == kvmStop(World)
            IN /\ SetWorld(R.W)
               /\ pc' = [pc EXCEPT ![t] = [at |-> "dkill_close", err |-> R.err,
                                           ch |-> stateRank(d.state)]]
               /\ Quiet
  /\ UNCHANGED <<xvars, platform, mvars>>

DKillClose(t) ==
  /\ pc[t].at = "dkill_close"
  /\ SetWorld(kvmKillClose(World))
  /\ DReturn("Kill", CHOOSE s \in {"New", "Created", "Running", "Stopped"} : stateRank(s) = pc[t].ch, pc[t].err)
  /\ pc' = [pc EXCEPT ![t] = Idle]
  /\ UNCHANGED <<xvars, platform, mvars>>

DConsole(t) ==
  /\ pc[t].at = "idle"
  /\ DReturn("Console", d.state, DriverConsole(World))
  /\ UNCHANGED <<xvars, dvars, mvars, pc>>

\* CloseConsole, from the client or from another goroutine (between the
\* two halves of a Kill as well).
DCloseConsole(t, fail) ==
  /\ d.closeConsoleCalls < MaxCloseCalls
  /\ LET R == DriverCloseConsole(World, fail)
     IN SetWorld(R.W) /\ DReturn("CloseConsole", d.state, R.err)
  /\ UNCHANGED <<xvars, platform, mvars, pc>>

\* A receive by whoever holds the channel Start returned.
DReceive(c) ==
  /\ c \in 1..Len(chans)
  /\ Len(chans[c].buf) > 0
  /\ chans' = [chans EXCEPT ![c].buf = Tail(@)]
  /\ Quiet
  /\ UNCHANGED <<xvars, platform, d, vm, watchers, mvars, pc>>

\* Errors vm.Run can return.
RunErrs == {NoErr, "RunError"}

Background ==
  \/ \E c \in 1..MaxStarts, e \in RunErrs : kvmRunReturns(c, e)
  \/ \E c \in 1..MaxStarts : vzWatcherNotified(c)
  \/ \E c \in 1..MaxStarts : WatcherSetStopped(c)
  \/ \E c \in 1..MaxStarts : WatcherSend(c)
  \/ vzGuestStops
  \/ vzGuestFails

ManagerInit0 ==
  /\ mcfg = [CPUs |-> DefaultCPUs, MemoryMB |-> DefaultMemoryMB, EnableNetwork |-> FALSE]
  /\ provider = [Kernel |-> TRUE, Initrd |-> TRUE, RootfsExt |-> ".gz",
                  NeedsExtraction |-> TRUE, Locator |-> FALSE]
  /\ fs = {}
  /\ mstate = "New"
  /\ lastErr = NoErr
  /\ errCh = 0
  /\ pstate = NoStateFile
  /\ monitor = <<>>
  /\ ret = NoRet
  /\ calls = {}

\* ------------------------------------------------- files of the snapshots
NumSnapshots == 2
NumContents == 2
SnapshotNames == 1..NumSnapshots
Contents == 1..NumContents

\* What a file holds: nothing (no such file), a disk image with content c,
\* an incompletely written file, the gzip stream gzip.Writer makes of a
\* disk image, a gzip stream with a sound header and a damaged body, bytes
\* that are no gzip stream.
NoFile == [k |-> "none", c |-> 0]
Raw(c) == [k |-> "raw", c |-> c]
Partial == [k |-> "partial", c |-> 0]
Gzip(b) == [k |-> "gzip", c |-> b.c]

\* gzip.NewReader accepts the header; io.Copy from the reader reaches the
\* end of the stream without error; the bytes it yields.
GzipHeaderOK(b) == b.k \in {"gzip", "gzip_damaged"}
GunzipOK(b) == b.k = "gzip"
Gunzip(b) == [k |-> "raw", c |-> b.c]

\* SnapshotManager.computeChecksum: the hex SHA256 of a file's bytes (two
\* files have the same digest only if they have the same bytes); the
\* Checksum field of an entry recorded without one is the empty string.
NoChecksum == <<>>
computeChecksum(b) == <<"sha256", b.k, b.c>>

\* snapshots.json and snapshots.json.tmp: missing, the JSON of a
\* SnapshotData, or an incompletely written file.
MetaNone == [k |-> "none", Snapshots |-> <<>>]
MetaDoc(snaps) == [k |-> "json", Snapshots |-> snaps]
MetaPartial == [k |-> "partial", Snapshots |-> <<>>]

SnapshotEntry(n, cs) == [Name |-> n, Checksum |-> cs]

NoArtifacts == [n \in SnapshotNames |-> NoFile]
NoPre == [disk |-> NoFile, arts |-> <<>>, meta |-> MetaNone]
SnapIdle ==
  [at |-> "idle", op |-> "none", name |-> 0, data |-> <<>>,
   checksum |-> NoChecksum, pre |-> NoPre]
NoSret == [op |-> "none", name |-> 0, err |-> NoErr, pre |-> NoPre]

\* terminal.go: the escape character Ctrl+] and the number of consecutive
\* escape characters that end the session.
EscapeChar == 29
EscapeCount == 2

\* NewEscapeReader(r), with what the terminal has supplied (in, each byte
\* with whether it came later than EscapeTimeout after the byte before it),
\* what Read has delivered to its callers (out), the number of times the
\* escaped channel was closed, and the last Read's results.
NewEscapeReader ==
  [escapeCount |-> 0, escapedOnce |-> FALSE, closes |-> 0,
   in |-> <<>>, out |-> <<>>, n |-> 0, err |-> NoErr]

\* No vm.pid file, no run command and no snapshot restore command.
NoCli ==
  [pidFile |-> [exists |-> FALSE, data |-> <<>>], lockFile |-> FALSE,
   run |-> <<>>, restore |-> "idle"]

\* A VM that has no disk and no snapshots, and no snapshot operation.
SnapshotInit0 ==
  /\ disk = NoFile
  /\ restoring = NoFile
  /\ arts = NoArtifacts
  /\ tmps = NoArtifacts
  /\ meta = MetaNone
  /\ metaTmp = MetaNone
  /\ sp = SnapIdle
  /\ sret = NoSret
  /\ origin = [n \in SnapshotNames |-> 0]
  /\ other = SnapIdle
  /\ er = NewEscapeReader
  /\ cli = NoCli

\* No VMConfig under validation.
NoVal == [cfg |-> <<>>, before |-> <<>>, err |-> NoErr, called |-> FALSE]

DriverInit0 ==
  /\ platform \in {"kvm", "vz"}
  /\ d = NewDriver
  /\ vm = [state |-> "None", notif |-> 0]
  /\ chans = <<>>
  /\ watchers = <<>>
  /\ dret = NoDret
  /\ pc = [t \in Callers |-> Idle]

DriverInit == DriverInit0 /\ ManagerInit0 /\ val = NoVal /\ SnapshotInit0

\* The client of the Driver is one goroutine (caller 1); the watchers and
\* the platform run concurrently with it.
Client == 1

DriverNext ==
  \/ \E dp \in {"", "disk.raw"}, f \in kvmCreateFails \cup vzCreateFails :
        /\ f \in CreateFails(platform)
        /\ DCreate(Client, [CPUs |-> 2, MemoryMB |-> 1024, Kernel |-> "vmlinuz",
                            Initrd |-> "", DiskPath |-> dp, EnableNetwork |-> FALSE,
                            NetworkMode |-> ""], f)
  \/ \E ok \in BOOLEAN : DStart(Client, ok)
  \/ \E out \in vzStopOutcomes \cup {"cancel"} :
        out \in StopOutcomes(platform) /\ DStop(Client, out)
  \/ \E ok \in BOOLEAN : DKill(Client, ok)
  \/ DKillClose(Client)
  \/ DConsole(Client)
  \/ \E f \in BOOLEAN : DCloseConsole(Client, f)
  \/ \E c \in 1..MaxStarts : DReceive(c)
  \/ Background

DriverSpec == DriverInit /\ [][DriverNext]_vars

\* A watcher goroutine that can take its next step eventually takes it;
\* vm.Run returns once its context is cancelled.
WatcherFairness ==
  \A c \in 1..MaxStarts :
    /\ WF_vars(\E e \in RunErrs :
                  c \in 1..Len(watchers) /\ watchers[c].cancelled /\ kvmRunReturns(c, e))
    /\ WF_vars(vzWatcherNotified(c))
    /\ WF_vars(WatcherSetStopped(c))
    /\ WF_vars(WatcherSend(c))

FairDriverSpec == DriverSpec /\ WatcherFairness /\ WF_vars(DKillClose(Client))

\* ------------------------------------------------------------- the Manager

\* NewManager: zero CPU and memory values take the defaults.
NewManager(c) ==
  [c EXCEPT !.CPUs = IF c.CPUs = 0 THEN DefaultCPUs ELSE c.CPUs,
            !.MemoryMB = IF c.MemoryMB = 0 THEN DefaultMemoryMB ELSE c.MemoryMB]

\* Distro providers: whether AssetURLs names a kernel and an initrd, the
\* extension filepath.Ext gives the rootfs URL, SetupRequirements, whether
\* KernelLocator is non-nil (kernel and initrd are extracted from the rootfs).
Alpine ==
  [Kernel |-> TRUE, Initrd |-> TRUE, RootfsExt |-> ".gz",
   NeedsExtraction |-> TRUE, Locator |-> FALSE]
DebianQcow ==
  [Kernel |-> FALSE, Initrd |-> FALSE, RootfsExt |-> ".qcow2",
   NeedsExtraction |-> FALSE, Locator |-> TRUE]

\* The Managers constructed: the configuration, the provider, the files
\* (empty directories, or the cache and data directories that hold the
\* assets and the disk of an earlier run).
ManagerSetups ==
  { [cfg |-> NewManager(c), provider |-> Alpine, fs |-> {}] :
      c \in { [CPUs |-> 0, MemoryMB |-> 0, EnableNetwork |-> FALSE],
              [CPUs |-> 2, MemoryMB |-> 64, EnableNetwork |-> FALSE] } }
  \cup { [cfg |-> NewManager([CPUs |-> 0, MemoryMB |-> 0, EnableNetwork |-> FALSE]),
          provider |-> DebianQcow,
          fs |-> {"vmlinuz", "initramfs", "rootfs.qcow2", "disk.raw"}] }

\* AssetManager.GetAssetPaths: the cached files, "" for a missing one.
GetAssetPaths(f) ==
  [Kernel |-> IF "vmlinuz" \in f THEN "vmlinuz" ELSE "",
   Initramfs |-> IF "initramfs" \in f THEN "initramfs" ELSE "",
   Rootfs |-> IF "rootfs.tar.gz" \in f THEN "rootfs.tar.gz"
              ELSE IF "rootfs.tar.xz" \in f THEN "rootfs.tar.xz"
              ELSE IF "rootfs.tar.zst" \in f THEN "rootfs.tar.zst"
              ELSE IF "rootfs.qcow2" \in f THEN "rootfs.qcow2"
              ELSE ""]

\* AssetManager.AssetsExist.
AssetsExist(pr, f) ==
  LET paths == GetAssetPaths(f)
  IN IF pr.Locator
       THEN ~ \/ paths.Kernel = "" \/ paths.Initramfs = ""
              \/ (pr.RootfsExt # "" /\ paths.Rootfs = "")
       ELSE ~ \/ (pr.Kernel /\ paths.Kernel = "")
              \/ (pr.Initrd /\ paths.Initramfs = "")
              \/ (pr.RootfsExt # "" /\ paths.Rootfs = "")

\* ImageManager.DiskExists.
DiskExists(f) == "disk.raw" \in f

\* Manager.isWarmPath.
isWarmPath(pr, f) ==
  IF ~AssetsExist(pr, f) THEN FALSE
  ELSE IF ~pr.NeedsExtraction
    THEN GetAssetPaths(f).Rootfs # ""
    ELSE DiskExists(f)

\* Where EnsureAssets (a download, the extraction of the kernel or of the
\* initrd from the rootfs) and EnsureDisk can fail.
EnsureFails == {"none", "kernel", "initrd", "rootfs", "extract", "extract_initrd", "disk"}

\* AssetManager.EnsureAssets: each asset with a URL is downloaded unless
\* its file is there; with a KernelLocator the rootfs comes first and the
\* kernel and the initrd are extracted from it unless both are there. A
\* failed download or extraction ends the call.
EnsureAssets(pr, f, fail) ==
  LET rootfs == "rootfs" \o pr.RootfsExt
      paths(k, i) == [Kernel |-> k, Initramfs |-> i,
                      Rootfs |-> IF pr.RootfsExt # "" THEN rootfs ELSE ""]
  IN IF pr.Locator
       THEN LET needR == pr.RootfsExt # "" /\ rootfs \notin f
                f1 == IF pr.RootfsExt # "" THEN f \cup {rootfs} ELSE f
                needX == "vmlinuz" \notin f1 \/ "initramfs" \notin f1
            IN IF needR /\ fail = "rootfs"
                 THEN [fs |-> f, err |-> "DownloadRootfs", paths |-> <<>>]
               ELSE IF needX /\ fail = "extract"
                 THEN [fs |-> f1, err |-> "ExtractKernel", paths |-> <<>>]
               ELSE IF needX /\ fail = "extract_initrd"
                 THEN [fs |-> f1 \cup {"vmlinuz"}, err |-> "ExtractKernel", paths |-> <<>>]
               ELSE [fs |-> f1 \cup {"vmlinuz", "initramfs"}, err |-> NoErr,
                     paths |-> paths("vmlinuz", "initramfs")]
       ELSE LET needK == pr.Kernel /\ "vmlinuz" \notin f
                f1 == IF pr.Kernel THEN f \cup {"vmlinuz"} ELSE f
                needI == pr.Initrd /\ "initramfs" \notin f1
                f2 == IF pr.Initrd THEN f1 \cup {"initramfs"} ELSE f1
                needR == pr.RootfsExt # "" /\ rootfs \notin f2
                f3 == IF pr.RootfsExt # "" THEN f2 \cup {rootfs} ELSE f2
            IN IF needK /\ fail = "kernel"
                 THEN [fs |-> f, err |-> "DownloadKernel", paths |-> <<>>]
               ELSE IF needI /\ fail = "initrd"
                 THEN [fs |-> f1, err |-> "DownloadInitramfs", paths |-> <<>>]
               ELSE IF needR /\ fail = "rootfs"
                 THEN [fs |-> f2, err |-> "DownloadRootfs", paths |-> <<>>]
               ELSE [fs |-> f3, err |-> NoErr,
                     paths |-> paths(IF pr.Kernel THEN "vmlinuz" ELSE "",
                                     IF pr.Initrd THEN "initramfs" ELSE "")]

\* ImageManager.EnsureDisk.
EnsureDisk(f, fail) ==
  IF fail = "disk" THEN [fs |-> f, err |-> "EnsureDisk", path |-> ""]
  ELSE [fs |-> f \cup {"disk.raw"}, err |-> NoErr, path |-> "disk.raw"]

\* The VMConfig both Prepare paths build.
BuildVMConfig(mc, paths, diskPath) ==
  [CPUs |-> mc.CPUs, MemoryMB |-> mc.MemoryMB, Kernel |-> paths.Kernel,
   Initrd |-> paths.Initramfs, DiskPath |-> diskPath,
   EnableNetwork |-> mc.EnableNetwork, NetworkMode |-> ""]

\* Mutant of warmPrepare: Validate is called before Create, as on the cold
\* path.
warmPrepareValidates(p, W, mc, pr, f, cfail) ==
  LET paths == GetAssetPaths(f)
      diskPath == IF ~pr.NeedsExtraction /\ paths.Rootfs # "" THEN paths.Rootfs ELSE "disk.raw"
      V == DriverValidate(p, BuildVMConfig(mc, paths, diskPath), TRUE)
      R == IF V.err # NoErr THEN [W |-> W, err |-> V.err]
           ELSE DriverCreate(p, W, V.cfg, cfail)
  IN [W |-> R.W, fs |-> f, err |-> R.err,
      calls |-> {"Assets.AssetsExist", "Assets.GetAssetPaths", "Driver.Validate", "Driver.Create"},
      dcalls |-> <<[op |-> "Create", pre |-> W.d.state, err |-> R.err, cfg |-> V.cfg]>>]

\* Manager.warmPrepare, after its state check: the Manager fields and the
\* world after the call.
warmPrepare(p, W, mc, pr, f, cfail) ==
  LET paths == GetAssetPaths(f)
      diskPath == IF ~pr.NeedsExtraction /\ paths.Rootfs # "" THEN paths.Rootfs ELSE "disk.raw"
      R == DriverCreate(p, W, BuildVMConfig(mc, paths, diskPath), cfail)
  IN [W |-> R.W, fs |-> f, err |-> R.err,
      calls |-> {"Assets.AssetsExist", "Assets.GetAssetPaths", "Driver.Create"}
                \cup (IF pr.NeedsExtraction THEN {"Images.DiskExists"} ELSE {}),
      dcalls |-> <<[op |-> "Create", pre |-> W.d.state, err |-> R.err,
                    cfg |-> BuildVMConfig(mc, paths, diskPath)]>>]

\* Manager.coldPrepare.
coldPrepare(p, W, mc, pr, f, efail, cfail) ==
  LET before == {"Assets.AssetsExist", "Assets.EnsureAssets"}
                \cup (IF AssetsExist(pr, f) /\ pr.NeedsExtraction
                        THEN {"Images.DiskExists"} ELSE {})
      A == EnsureAssets(pr, f, efail)
  IN IF A.err # NoErr
       THEN [W |-> W, fs |-> A.fs, err |-> A.err, calls |-> before, dcalls |-> <<>>]
     ELSE
       LET direct == ~pr.NeedsExtraction /\ A.paths.Rootfs # ""
           D == IF direct THEN [fs |-> A.fs, err |-> NoErr, path |-> A.paths.Rootfs]
                ELSE EnsureDisk(A.fs, efail)
           c1 == before \cup (IF direct THEN {} ELSE {"Images.EnsureDisk"})
       IN IF D.err # NoErr
            THEN [W |-> W, fs |-> D.fs, err |-> D.err, calls |-> c1, dcalls |-> <<>>]
          ELSE
            LET cfg == BuildVMConfig(mc, A.paths, D.path)
                V == DriverValidate(p, cfg, cfg.Kernel \in D.fs)
                vcall == [op |-> "Validate", pre |-> W.d.state, err |-> V.err]
            IN IF V.err # NoErr
                 THEN [W |-> W, fs |-> D.fs, err |-> V.err,
                       calls |-> c1 \cup {"Driver.Validate"}, dcalls |-> <<vcall>>]
               ELSE
                 LET R == DriverCreate(p, W, V.cfg, cfail)
                 IN [W |-> R.W, fs |-> D.fs, err |-> R.err,
                     calls |-> c1 \cup {"Driver.Validate", "Driver.Create"},
                     dcalls |-> <<vcall, [op |-> "Create", pre |-> W.d.state, err |-> R.err,
                                          cfg |-> V.cfg]>>]

Return(op, pre, e, path, ok) ==
  ret' = [op |-> op, pre |-> pre, err |-> e, path |-> path, envOK |-> ok]

\* Manager.Prepare, under m.mu from the state check to the return.
Prepare(t, efail, cfail) ==
  /\ pc[t].at = "idle"
  /\ (mstate # "New" /\ mstate # "Stopped") => (efail = "none" /\ cfail = "none")
  /\ IF mstate # "New" /\ mstate # "Stopped"
       THEN /\ Return("Prepare", mstate, "InvalidState", "", FALSE)
            /\ calls' = {}
            /\ dret' = NoDret
            /\ UNCHANGED <<d, vm, chans, watchers, fs, mstate, lastErr>>
       ELSE LET warm == isWarmPath(provider, fs)
                R == IF warm
                       THEN warmPrepare(platform, World, mcfg, provider, fs, cfail)
                       ELSE coldPrepare(platform, World, mcfg, provider, fs, efail, cfail)
            IN /\ SetWorld(R.W)
               /\ fs' = R.fs
               /\ calls' = R.calls
               /\ dret' = IF R.dcalls = <<>> THEN NoDret ELSE R.dcalls[Len(R.dcalls)]
               /\ mstate' = IF R.err # NoErr THEN "Error" ELSE "Ready"
               /\ lastErr' = IF R.err # NoErr THEN R.err ELSE lastErr
               /\ Return("Prepare", mstate, R.err, IF warm THEN "warm" ELSE "cold",
                         efail = "none" /\ cfail = "none")
  /\ UNCHANGED <<xvars, platform, mcfg, provider, errCh, pstate, monitor, pc>>

\* A variant of RecordBoot that leaves the clean-shutdown flag alone.
RecordBootKeepsFlag(f, ok) ==
  IF ok
    THEN StateFileSave([StateFileLoad(f) EXCEPT !.LastBoot = TRUE, !.BootCount = @ + 1])
    ELSE f

\* StateFile.RecordBoot on the file f; ok: Load and Save succeed (a failing
\* Save leaves state.json as it was). A timestamp is FALSE for the zero
\* time and TRUE once time.Now() has been stored.
RecordBoot(f, ok) ==
  IF ok
    THEN StateFileSave([StateFileLoad(f) EXCEPT !.LastBoot = TRUE, !.BootCount = @ + 1,
                                                !.CleanShutdown = FALSE])
    ELSE f

\* StateFile.RecordShutdown.
RecordShutdown(f, clean, ok) ==
  IF ok
    THEN StateFileSave([StateFileLoad(f) EXCEPT !.LastShutdown = TRUE,
                                                !.CleanShutdown = clean])
    ELSE f

\* Manager.Start, under m.mu throughout.
Start(t, startOK, persistOK) ==
  /\ pc[t].at = "idle"
  /\ Len(chans) < MaxStarts
  /\ mstate # "Ready" => (startOK /\ persistOK)
  /\ IF mstate # "Ready"
       THEN /\ Return("Start", mstate, "InvalidState", "", FALSE)
            /\ calls' = {}
            /\ dret' = NoDret
            /\ UNCHANGED <<d, vm, chans, watchers, mstate, lastErr, errCh, pstate, monitor>>
       ELSE LET R == DriverStart(platform, World, startOK)
            IN /\ SetWorld(R.W)
               /\ dret' = [op |-> "Start", pre |-> d.state, err |-> R.err]
               /\ Return("Start", mstate, R.err, "", startOK)
               /\ IF R.err # NoErr
                    THEN /\ mstate' = "Error"
                         /\ lastErr' = R.err
                         /\ calls' = {"Driver.Start"}
                         /\ UNCHANGED <<errCh, pstate, monitor>>
                    ELSE /\ errCh' = R.ch
                         /\ mstate' = "Running"
                         /\ pstate' = RecordBoot(pstate, persistOK)
                         /\ monitor' = Append(monitor, [pc |-> "recv", err |-> NoErr])
                         /\ calls' = {"Driver.Start", "StateFile.RecordBoot"}
                         /\ UNCHANGED lastErr
  /\ UNCHANGED <<xvars, platform, mcfg, provider, fs, pc>>

\* ret.pre of a call that passed its state check in an earlier step.
Accepted == "accepted"

\* Mutant of StopBegin: Stopping is set before the state check.
StopBeginMarksFirst(t) ==
  /\ pc[t].at = "idle"
  /\ mstate' = "Stopping"
  /\ IF mstate # "Running"
       THEN /\ Return("Stop", mstate, "InvalidState", "", FALSE)
            /\ UNCHANGED pc
       ELSE /\ pc' = [pc EXCEPT ![t] = [at |-> "stop_call", err |-> NoErr, ch |-> 0]]
            /\ ret' = NoRet
  /\ calls' = {}
  /\ dret' = NoDret
  /\ UNCHANGED <<xvars, dvars, mcfg, provider, fs, lastErr, errCh, pstate, monitor>>

\* Manager.Stop, first critical section: the state check and Stopping.
StopBegin(t) ==
  /\ pc[t].at = "idle"
  /\ IF mstate # "Running"
       THEN /\ Return("Stop", mstate, "InvalidState", "", FALSE)
            /\ UNCHANGED <<mstate, pc>>
       ELSE /\ mstate' = "Stopping"
            /\ pc' = [pc EXCEPT ![t] = [at |-> "stop_call", err |-> NoErr, ch |-> 0]]
            /\ ret' = NoRet
  /\ calls' = {}
  /\ dret' = NoDret
  /\ UNCHANGED <<xvars, dvars, mcfg, provider, fs, lastErr, errCh, pstate, monitor>>

\* Manager.Stop: m.driver.Stop(ctx), outside m.mu.
StopCall(t, out) ==
  /\ pc[t].at = "stop_call"
  /\ LET R == DriverStop(platform, World, out)
     IN /\ SetWorld(R.W)
        /\ dret' = [op |-> "Stop", pre |-> d.state, err |-> R.err]
        /\ IF R.err # NoErr
             THEN /\ pc' = [pc EXCEPT ![t] = [at |-> "stop_fail", err |-> R.err, ch |-> 0]]
                  /\ ret' = NoRet
             ELSE /\ pc' = [pc EXCEPT ![t] = Idle]
                  /\ Return("Stop", Accepted, NoErr, "", TRUE)
  /\ calls' = {"Driver.Stop"}
  /\ UNCHANGED <<xvars, platform, mcfg, provider, fs, mstate, lastErr, errCh, pstate, monitor>>

\* Manager.Stop and Manager.Kill: the second critical section, after the
\* Driver call failed.
FailCall(t, at, op) ==
  /\ pc[t].at = at
  /\ mstate' = "Error"
  /\ lastErr' = pc[t].err
  /\ Return(op, Accepted, pc[t].err, "", FALSE)
  /\ pc' = [pc EXCEPT ![t] = Idle]
  /\ calls' = {}
  /\ dret' = NoDret
  /\ UNCHANGED <<xvars, dvars, mcfg, provider, fs, errCh, pstate, monitor>>

\* Mutant of KillBegin: Kill is also accepted in Stopped.
KillBeginFromStopped(t) ==
  /\ pc[t].at = "idle"
  /\ IF mstate \notin {"Running", "Stopping", "Stopped"}
       THEN /\ Return("Kill", mstate, "InvalidState", "", FALSE)
            /\ UNCHANGED pc
       ELSE /\ pc' = [pc EXCEPT ![t] = [at |-> "kill_call", err |-> NoErr, ch |-> 0]]
            /\ ret' = NoRet
  /\ calls' = {}
  /\ dret' = NoDret
  /\ UNCHANGED <<xvars, dvars, mcfg, provider, fs, mstate, lastErr, errCh, pstate, monitor>>

\* Manager.Kill: the state check.
KillBegin(t) ==
  /\ pc[t].at = "idle"
  /\ IF mstate # "Running" /\ mstate # "Stopping"
       THEN /\ Return("Kill", mstate, "InvalidState", "", FALSE)
            /\ UNCHANGED pc
       ELSE /\ pc' = [pc EXCEPT ![t] = [at |-> "kill_call", err |-> NoErr, ch |-> 0]]
            /\ ret' = NoRet
  /\ calls' = {}
  /\ dret' = NoDret
  /\ UNCHANGED <<xvars, dvars, mcfg, provider, fs, mstate, lastErr, errCh, pstate, monitor>>

\* After m.driver.Kill returned e.
KillReturned(t, e) ==
  IF e # NoErr
    THEN /\ pc' = [pc EXCEPT ![t] = [at |-> "kill_fail", err |-> e, ch |-> 0]]
         /\ ret' = NoRet
    ELSE /\ pc' = [pc EXCEPT ![t] = Idle]
         /\ Return("Kill", Accepted, NoErr, "", TRUE)

\* Manager.Kill: m.driver.Kill(ctx), outside m.mu. On KVM this is the
\* Stop() inside Kill; the disk file is closed in the next step.
KillCall(t, stopOK) ==
  /\ pc[t].at = "kill_call"
  /\ IF platform = "vz"
       THEN LET R == vzKill(World, stopOK)
            IN /\ SetWorld(R.W)
               /\ dret' = [op |-> "Kill", pre |-> d.state, err |-> R.err]
               /\ KillReturned(t, R.err)
       ELSE LET R == kvmStop(World)
            IN /\ SetWorld(R.W)
               /\ dret' = [op |-> "Kill", pre |-> d.state, err |-> R.err]
               /\ pc' = [pc EXCEPT ![t] = [at |-> "kill_close", err |-> R.err, ch |-> 0]]
               /\ ret' = NoRet
  /\ calls' = {"Driver.Kill"}
  /\ UNCHANGED <<xvars, platform, mcfg, provider, fs, mstate, lastErr, errCh, pstate, monitor>>

\* kvmDriver.Kill closes the disk file and returns Stop's error.
KillClose(t) ==
  /\ pc[t].at = "kill_close"
  /\ SetWorld(kvmKillClose(World))
  /\ KillReturned(t, pc[t].err)
  /\ calls' = {}
  /\ dret' = NoDret
  /\ UNCHANGED <<xvars, platform, mcfg, provider, fs, mstate, lastErr, errCh, pstate, monitor>>

\* Manager.Wait: reads m.errCh under the read lock; nil is an error.
WaitBegin(t) ==
  /\ pc[t].at = "idle"
  /\ IF errCh = 0
       THEN /\ Return("Wait", mstate, "VMNotStarted", "", FALSE)
            /\ UNCHANGED pc
       ELSE /\ pc' = [pc EXCEPT ![t] = [at |-> "wait", err |-> NoErr, ch |-> errCh]]
            /\ ret' = NoRet
  /\ calls' = {}
  /\ dret' = NoDret
  /\ UNCHANGED <<xvars, dvars, mcfg, provider, fs, mstate, lastErr, errCh, pstate, monitor>>

\* Manager.Wait: return <-errCh.
WaitRecv(t) ==
  /\ pc[t].at = "wait"
  /\ Len(chans[pc[t].ch].buf) > 0
  /\ chans' = [chans EXCEPT ![pc[t].ch].buf = Tail(@)]
  /\ Return("Wait", Accepted, Head(chans[pc[t].ch].buf), "", TRUE)
  /\ pc' = [pc EXCEPT ![t] = Idle]
  /\ calls' = {}
  /\ dret' = NoDret
  /\ UNCHANGED <<xvars, platform, d, vm, watchers, mcfg, provider, fs, mstate, lastErr,
                 errCh, pstate, monitor>>

\* Manager.Console, under the read lock.
Console(t) ==
  /\ pc[t].at = "idle"
  /\ IF mstate # "Running"
       THEN Return("Console", mstate, "VMNotRunning", "", FALSE) /\ calls' = {}
       ELSE Return("Console", mstate, DriverConsole(World), "", TRUE)
            /\ calls' = {"Driver.Console"}
  /\ dret' = NoDret
  /\ UNCHANGED <<xvars, dvars, mvars, pc>>

\* Manager.monitorVM: err := <-m.errCh, then RecordShutdown(err == nil).
monitorRecv(i, persistOK) ==
  /\ i \in 1..Len(monitor)
  /\ monitor[i].pc = "recv"
  /\ errCh # 0
  /\ Len(chans[errCh].buf) > 0
  /\ LET e == Head(chans[errCh].buf)
     IN /\ monitor' = [monitor EXCEPT ![i] = [pc |-> "lock", err |-> e]]
        /\ pstate' = RecordShutdown(pstate, e = NoErr, persistOK)
  /\ chans' = [chans EXCEPT ![errCh].buf = Tail(@)]
  /\ calls' = {"StateFile.RecordShutdown"}
  /\ dret' = NoDret /\ ret' = NoRet
  /\ UNCHANGED <<xvars, platform, d, vm, watchers, mcfg, provider, fs, mstate, lastErr, errCh, pc>>

\* Manager.monitorVM: under m.mu, Error (with the error) or Stopped.
monitorSetState(i) ==
  /\ i \in 1..Len(monitor)
  /\ monitor[i].pc = "lock"
  /\ mstate' = IF monitor[i].err # NoErr THEN "Error" ELSE "Stopped"
  /\ lastErr' = IF monitor[i].err # NoErr THEN monitor[i].err ELSE lastErr
  /\ monitor' = [monitor EXCEPT ![i].pc = "done"]
  /\ Quiet
  /\ UNCHANGED <<xvars, dvars, mcfg, provider, fs, errCh, pstate, pc>>

Init ==
  /\ DriverInit0
  /\ val = NoVal
  /\ SnapshotInit0
  /\ \E su \in ManagerSetups : mcfg = su.cfg /\ provider = su.provider /\ fs = su.fs
  /\ mstate = "New"
  /\ lastErr = NoErr
  /\ errCh = 0
  /\ pstate = NoStateFile
  /\ monitor = <<>>
  /\ ret = NoRet
  /\ calls = {}

\* Idle callers are interchangeable: the lowest-numbered one makes the
\* next call.
LowestIdle(t) == \A u \in Callers : u < t => pc[u].at # "idle"

\* The calls a caller can make; Load and Save of state.json succeed (the
\* data directory is writable).
ManagerCalls(t) ==
  \/ \E ef \in EnsureFails, cf \in kvmCreateFails \cup vzCreateFails :
        cf \in CreateFails(platform) /\ Prepare(t, ef, cf)
  \/ \E ok \in BOOLEAN, pok \in {TRUE} : Start(t, ok, pok)
  \/ StopBegin(t)
  \/ KillBegin(t)
  \/ WaitBegin(t)
  \/ Console(t)

\* The steps that finish a call in progress.
CallSteps(t) ==
  \/ \E out \in vzStopOutcomes \cup {"cancel"} :
        out \in StopOutcomes(platform) /\ StopCall(t, out)
  \/ FailCall(t, "stop_fail", "Stop")
  \/ \E ok \in BOOLEAN : KillCall(t, ok)
  \/ KillClose(t)
  \/ FailCall(t, "kill_fail", "Kill")
  \/ WaitRecv(t)

MonitorSteps ==
  \/ \E i \in 1..MaxStarts, pok \in {TRUE} : monitorRecv(i, pok)
  \/ \E i \in 1..MaxStarts : monitorSetState(i)

Next ==
  \/ \E t \in Callers : LowestIdle(t) /\ ManagerCalls(t)
  \/ \E t \in Callers : CallSteps(t)
  \/ MonitorSteps
  \/ Background

Spec == Init /\ [][Next]_vars

\* Callers inside a call, the monitor and the watchers keep running.
FairSpec ==
  /\ Spec
  /\ WatcherFairness
  /\ WF_vars(MonitorSteps)
  /\ \A t \in Callers : WF_vars(CallSteps(t))

\* --------------------------------------- Prepare on existing directories
\* The ManagerConfig values of the Managers below: the zero value, a valid
\* one, too little memory, a negative CPU count.

\* The first Manager of a fresh installation: nothing cached yet.
PrepareInit ==
  /\ DriverInit0
  /\ val = NoVal
  /\ SnapshotInit0
  /\ \E pr \in {Alpine, DebianQcow,
                  [Kernel |-> FALSE, Initrd |-> FALSE, RootfsExt |-> ".qcow2",
                   NeedsExtraction |-> TRUE, Locator |-> TRUE]}, c \in
        { [CPUs |-> 0, MemoryMB |-> 0, EnableNetwork |-> FALSE],
          [CPUs |-> 2, MemoryMB |-> 1024, EnableNetwork |-> TRUE],
          [CPUs |-> 2, MemoryMB |-> 64, EnableNetwork |-> FALSE],
          [CPUs |-> -1, MemoryMB |-> 1024, EnableNetwork |-> FALSE] } :
        mcfg = NewManager(c) /\ provider = pr
  /\ fs = {}
  /\ mstate = "New"
  /\ lastErr = NoErr
  /\ errCh = 0
  /\ pstate = NoStateFile
  /\ monitor = <<>>
  /\ ret = NoRet
  /\ calls = {}

\* The program runs again: NewDriver and NewManager with the same
\* configuration, on the cache and data directories the earlier run left.
NewManagerAgain ==
  /\ mstate # "New"
  /\ d' = NewDriver
  /\ vm' = [state |-> "None", notif |-> 0]
  /\ mstate' = "New"
  /\ lastErr' = NoErr
  /\ errCh' = 0
  /\ Quiet
  /\ UNCHANGED <<xvars, platform, chans, watchers, mcfg, provider, fs, pstate, monitor, pc>>

PrepareNext ==
  \/ \E ef \in EnsureFails, cf \in kvmCreateFails \cup vzCreateFails :
        cf \in CreateFails(platform) /\ Prepare(Client, ef, cf)
  \/ NewManagerAgain

PrepareSpec == PrepareInit /\ [][PrepareNext]_vars

\* ------------------------------------------------ the persisted state file
\* A Manager on the directories of an earlier run, with no state.json or
\* with the one an earlier run left.
StateInit ==
  /\ DriverInit0
  /\ val = NoVal
  /\ SnapshotInit0
  /\ mcfg = NewManager([CPUs |-> 0, MemoryMB |-> 0, EnableNetwork |-> FALSE])
  /\ provider = DebianQcow
  /\ fs = {"vmlinuz", "initramfs", "rootfs.qcow2", "disk.raw"}
  /\ mstate = "New"
  /\ lastErr = NoErr
  /\ errCh = 0
  /\ pstate \in {NoStateFile}
                \cup { StateFileSave([LastBoot |-> TRUE, LastShutdown |-> TRUE,
                                      BootCount |-> 1, KernelVersion |-> "6.1",
                                      DiskSizeMB |-> 10240, CleanShutdown |-> b]) :
                         b \in BOOLEAN }
  /\ monitor = <<>>
  /\ ret = NoRet
  /\ calls = {}

\* One caller uses the Manager; RecordBoot and RecordShutdown can fail; once
\* the run and its monitor have ended the program can be run again.
StateNext ==
  \/ Prepare(Client, "none", "none")
  \/ \E ok \in BOOLEAN, pok \in BOOLEAN : Start(Client, ok, pok)
  \/ StopBegin(Client)
  \/ KillBegin(Client)
  \/ WaitBegin(Client)
  \/ CallSteps(Client)
  \/ \E i \in 1..MaxStarts, pok \in BOOLEAN : monitorRecv(i, pok)
  \/ \E i \in 1..MaxStarts : monitorSetState(i)
  \/ Background
  \/ /\ pc[Client].at = "idle"
     /\ \A i \in 1..Len(monitor) : monitor[i].pc = "done"
     /\ NewManagerAgain

StateSpec == StateInit /\ [][StateNext]_vars

\* ------------------------------------------------- Validate on any VMConfig
\* The VMConfig values handed to Validate: CPU counts and memory sizes on
\* both sides of the limits, a kernel path that is empty, names the cached
\* kernel or names no file, every network mode with networking on and off.

ValidateInit ==
  /\ DriverInit0
  /\ ManagerInit0
  /\ SnapshotInit0
  /\ \E c \in
        [CPUs : {-1, 0, 1, 2}, MemoryMB : {0, MinMemoryMB - 1, MinMemoryMB, DefaultMemoryMB},
         Kernel : {"", "vmlinuz", "missing"}, Initrd : {""}, DiskPath : {""},
         EnableNetwork : BOOLEAN, NetworkMode : {"", "nat", "bridged", "host"}] :
        val = [NoVal EXCEPT !.cfg = c, !.before = c]

\* Driver.Validate(ctx, &cfg) by a caller that holds cfg; the kernel file
\* "vmlinuz" is the one that exists.
Validate ==
  /\ LET R == DriverValidate(platform, val.cfg, val.cfg.Kernel = "vmlinuz")
     IN val' = [cfg |-> R.cfg, before |-> val.cfg, err |-> R.err, called |-> TRUE]
  /\ DReturn("Validate", d.state, val'.err)
  /\ UNCHANGED <<dvars, mvars, pc, svars, other, er, cli>>

ValidateNext == Validate

ValidateSpec == ValidateInit /\ [][ValidateNext]_vars

\* ------------------------------------------------------ the snapshot engine
\* The variables a SnapshotManager operation leaves alone.
ovars == <<dvars, dret, mvars, pc, ret, calls, val, other, er, cli>>

\* The files of one VM's data directory.
Files ==
  [disk |-> disk, restoring |-> restoring, arts |-> arts, tmps |-> tmps,
   meta |-> meta, metaTmp |-> metaTmp]

SetFiles(F) ==
  /\ disk' = F.disk
  /\ restoring' = F.restoring
  /\ arts' = F.arts
  /\ tmps' = F.tmps
  /\ meta' = F.meta
  /\ metaTmp' = F.metaTmp

\* What an operation is measured against: the live disk, the artifacts
\* under their final names, the metadata document.
Persisted(F) == [disk |-> F.disk, arts |-> F.arts, meta |-> F.meta]

\* SnapshotManager.Load: a missing snapshots.json is an empty list.
Load(m) == IF m.k = "json" THEN m.Snapshots ELSE <<>>

HasEntry(snaps, n) == \E i \in 1..Len(snaps) : snaps[i].Name = n

\* SnapshotManager.GetSnapshot on a name that has an entry: the first one.
GetSnapshot(snaps, n) ==
  snaps[CHOOSE i \in 1..Len(snaps) :
          snaps[i].Name = n /\ \A j \in 1..(i - 1) : snaps[j].Name # n]

\* A variant that leaves the temporary artifacts.
CleanupPartialKeepsTmp(F) ==
  [F EXCEPT !.restoring = NoFile, !.metaTmp = MetaNone]

\* SnapshotManager.CleanupPartial: removes snapshots/*.tmp, *.restoring
\* and snapshots.json.tmp.
CleanupPartial(F) ==
  [F EXCEPT !.tmps = NoArtifacts, !.restoring = NoFile, !.metaTmp = MetaNone]

SReturn(op, n, e, pre) ==
  /\ sret' = [op |-> op, name |-> n, err |-> e, pre |-> pre]
  /\ sp' = SnapIdle

SnapStep(at) == sp' = [sp EXCEPT !.at = at] /\ sret' = NoSret

\* Names without an entry are interchangeable: a new snapshot takes the
\* lowest of them.
LowestUnused(n) ==
  \A m \in SnapshotNames : m < n => HasEntry(Load(meta), m)

\* A variant without the check for an entry of the same name.
CreateSnapshotBeginAnyName(n, fail) ==
  /\ sp.at = "idle"
  /\ LET F == CleanupPartial(Files)
         data == Load(F.meta)
         pre == Persisted(Files)
         e == IF F.disk = NoFile THEN "DiskNotFound"
              ELSE IF fail THEN "CreateSnapshotFile"
              ELSE NoErr
     IN IF e # NoErr
          THEN SetFiles(F) /\ SReturn("CreateSnapshot", n, e, pre)
          ELSE /\ SetFiles([F EXCEPT !.tmps[n] = Partial])
               /\ sp' = [at |-> "compress", op |-> "CreateSnapshot", name |-> n,
                         data |-> data, checksum |-> NoChecksum, pre |-> pre]
               /\ sret' = NoSret
  /\ UNCHANGED <<ovars, origin>>

\* CreateSnapshot up to os.Create of the temporary artifact: CleanupPartial,
\* the disk is there, Load, no entry has the name.
CreateSnapshotBegin(n, fail) ==
  /\ sp.at = "idle"
  /\ LET F == CleanupPartial(Files)
         data == Load(F.meta)
         pre == Persisted(Files)
         e == IF F.disk = NoFile THEN "DiskNotFound"
              ELSE IF HasEntry(data, n) THEN "AlreadyExists"
              ELSE IF fail THEN "CreateSnapshotFile"
              ELSE NoErr
     IN IF e # NoErr
          THEN SetFiles(F) /\ SReturn("CreateSnapshot", n, e, pre)
          ELSE /\ SetFiles([F EXCEPT !.tmps[n] = Partial])
               /\ sp' = [at |-> "compress", op |-> "CreateSnapshot", name |-> n,
                         data |-> data, checksum |-> NoChecksum, pre |-> pre]
               /\ sret' = NoSret
  /\ UNCHANGED <<ovars, origin>>

\* A variant that compresses an empty disk image.
CreateSnapshotCompressNothing(fail) ==
  /\ sp.at = "compress"
  /\ IF fail
       THEN /\ tmps' = [tmps EXCEPT ![sp.name] = NoFile]
            /\ SReturn(sp.op, sp.name, "CompressDisk", sp.pre)
       ELSE /\ tmps' = IF tmps[sp.name] = NoFile THEN tmps
                       ELSE [tmps EXCEPT ![sp.name] = Gzip(Raw(0))]
            /\ SnapStep("rename")
  /\ UNCHANGED <<ovars, disk, restoring, arts, meta, metaTmp, origin>>

\* io.Copy of the disk through the gzip writer into the temporary
\* artifact, gzWriter.Close, dstFile.Close. When the temporary artifact has
\* been removed since os.Create, the writes go to the open, unlinked file.
CreateSnapshotCompress(fail) ==
  /\ sp.at = "compress"
  /\ IF fail
       THEN /\ tmps' = [tmps EXCEPT ![sp.name] = NoFile]
            /\ SReturn(sp.op, sp.name, "CompressDisk", sp.pre)
       ELSE /\ tmps' = IF tmps[sp.name] = NoFile THEN tmps
                       ELSE [tmps EXCEPT ![sp.name] = Gzip(disk)]
            /\ SnapStep("rename")
  /\ UNCHANGED <<ovars, disk, restoring, arts, meta, metaTmp, origin>>

\* os.Rename of the temporary artifact to its final name; it fails when
\* the temporary artifact is no longer there.
CreateSnapshotRename(fail) ==
  /\ sp.at = "rename"
  /\ IF fail \/ tmps[sp.name] = NoFile
       THEN /\ tmps' = [tmps EXCEPT ![sp.name] = NoFile]
            /\ SReturn(sp.op, sp.name, "FinalizeSnapshot", sp.pre)
            /\ UNCHANGED <<arts, origin>>
       ELSE /\ arts' = [arts EXCEPT ![sp.name] = tmps[sp.name]]
            /\ tmps' = [tmps EXCEPT ![sp.name] = NoFile]
            /\ origin' = [origin EXCEPT ![sp.name] = disk.c]
            /\ SnapStep("checksum")
  /\ UNCHANGED <<ovars, disk, restoring, meta, metaTmp>>

\* computeChecksum of the artifact under its final name.
CreateSnapshotChecksum(fail) ==
  /\ sp.at = "checksum"
  /\ IF fail
       THEN /\ arts' = [arts EXCEPT ![sp.name] = NoFile]
            /\ origin' = [origin EXCEPT ![sp.name] = 0]
            /\ SReturn(sp.op, sp.name, "ComputeChecksum", sp.pre)
       ELSE /\ sp' = [sp EXCEPT !.at = "save",
                                !.checksum = computeChecksum(arts[sp.name])]
            /\ sret' = NoSret
            /\ UNCHANGED <<arts, origin>>
  /\ UNCHANGED <<ovars, disk, restoring, tmps, meta, metaTmp>>

\* A variant that puts the new entry first.
CreateSnapshotSaveWritePrepends(fail, left) ==
  /\ sp.at = "save"
  /\ left \in {MetaNone, MetaPartial}
  /\ ~fail => left = MetaNone
  /\ LET data == <<SnapshotEntry(sp.name, sp.checksum)>> \o sp.data
     IN IF fail
          THEN /\ metaTmp' = left
               /\ arts' = [arts EXCEPT ![sp.name] = NoFile]
               /\ origin' = [origin EXCEPT ![sp.name] = 0]
               /\ SReturn(sp.op, sp.name, "WriteSnapshotsTemp", sp.pre)
          ELSE /\ metaTmp' = MetaDoc(data)
               /\ SnapStep("save_rename")
               /\ UNCHANGED <<arts, origin>>
  /\ UNCHANGED <<ovars, disk, restoring, tmps, meta>>

\* The entry is appended; Save writes snapshots.json.tmp. A failed
\* os.WriteFile can leave a part of the file; CreateSnapshot then removes
\* the artifact.
CreateSnapshotSaveWrite(fail, left) ==
  /\ sp.at = "save"
  /\ left \in {MetaNone, MetaPartial}
  /\ ~fail => left = MetaNone
  /\ LET data == Append(sp.data, SnapshotEntry(sp.name, sp.checksum))
     IN IF fail
          THEN /\ metaTmp' = left
               /\ arts' = [arts EXCEPT ![sp.name] = NoFile]
               /\ origin' = [origin EXCEPT ![sp.name] = 0]
               /\ SReturn(sp.op, sp.name, "WriteSnapshotsTemp", sp.pre)
          ELSE /\ metaTmp' = MetaDoc(data)
               /\ SnapStep("save_rename")
               /\ UNCHANGED <<arts, origin>>
  /\ UNCHANGED <<ovars, disk, restoring, tmps, meta>>

\* Save renames snapshots.json.tmp, whatever it holds by now, to
\* snapshots.json; on failure (the file is no longer there) it removes the
\* temporary file and CreateSnapshot removes the artifact.
CreateSnapshotSaveRename(fail) ==
  /\ sp.at = "save_rename"
  /\ IF fail \/ metaTmp = MetaNone
       THEN /\ metaTmp' = MetaNone
            /\ arts' = [arts EXCEPT ![sp.name] = NoFile]
            /\ origin' = [origin EXCEPT ![sp.name] = 0]
            /\ SReturn(sp.op, sp.name, "RenameSnapshots", sp.pre)
            /\ UNCHANGED meta
       ELSE /\ meta' = metaTmp
            /\ metaTmp' = MetaNone
            /\ SReturn(sp.op, sp.name, NoErr, sp.pre)
            /\ UNCHANGED <<arts, origin>>
  /\ UNCHANGED <<ovars, disk, restoring, tmps>>

\* RestoreSnapshot up to os.Create of disk.raw.restoring: CleanupPartial,
\* GetSnapshot, the checksum of an entry that has one, os.Open,
\* gzip.NewReader.
RestoreSnapshotBegin(n, fail) ==
  /\ sp.at = "idle"
  /\ LET F == CleanupPartial(Files)
         data == Load(F.meta)
         pre == Persisted(Files)
         a == F.arts[n]
         e == IF ~HasEntry(data, n) THEN "NotFound"
              ELSE IF GetSnapshot(data, n).Checksum # NoChecksum /\ a = NoFile
                THEN "VerifyChecksum"
              ELSE IF /\ GetSnapshot(data, n).Checksum # NoChecksum
                      /\ computeChecksum(a) # GetSnapshot(data, n).Checksum
                THEN "SnapshotCorrupted"
              ELSE IF a = NoFile THEN "OpenSnapshot"
              ELSE IF ~GzipHeaderOK(a) THEN "OpenGzip"
              ELSE IF fail THEN "CreateTempDisk"
              ELSE NoErr
     IN IF e # NoErr
          THEN SetFiles(F) /\ SReturn("RestoreSnapshot", n, e, pre)
          ELSE /\ SetFiles([F EXCEPT !.restoring = Partial])
               /\ sp' = [at |-> "decompress", op |-> "RestoreSnapshot", name |-> n,
                         data |-> data, checksum |-> NoChecksum, pre |-> pre]
               /\ sret' = NoSret
  /\ UNCHANGED <<ovars, origin>>

\* A variant that decompresses onto the live disk.
RestoreSnapshotDecompressInPlace(fail) ==
  /\ sp.at = "decompress"
  /\ IF fail \/ ~GunzipOK(arts[sp.name])
       THEN /\ restoring' = NoFile
            /\ disk' = Partial
            /\ SReturn(sp.op, sp.name, "DecompressSnapshot", sp.pre)
       ELSE /\ restoring' = Gunzip(arts[sp.name])
            /\ disk' = disk
            /\ SnapStep("replace")
  /\ UNCHANGED <<ovars, arts, tmps, meta, metaTmp, origin>>

\* io.Copy from the gzip reader into disk.raw.restoring.
RestoreSnapshotDecompress(fail) ==
  /\ sp.at = "decompress"
  /\ IF fail \/ ~GunzipOK(arts[sp.name])
       THEN /\ restoring' = NoFile
            /\ disk' = disk
            /\ SReturn(sp.op, sp.name, "DecompressSnapshot", sp.pre)
       ELSE /\ restoring' = Gunzip(arts[sp.name])
            /\ disk' = disk
            /\ SnapStep("replace")
  /\ UNCHANGED <<ovars, arts, tmps, meta, metaTmp, origin>>

\* A variant that removes the artifact it has restored.
RestoreSnapshotReplaceConsumes(fail) ==
  /\ sp.at = "replace"
  /\ IF fail
       THEN /\ restoring' = NoFile
            /\ SReturn(sp.op, sp.name, "ReplaceDisk", sp.pre)
            /\ UNCHANGED <<disk, arts>>
       ELSE /\ disk' = restoring
            /\ restoring' = NoFile
            /\ arts' = [arts EXCEPT ![sp.name] = NoFile]
            /\ SReturn(sp.op, sp.name, NoErr, sp.pre)
  /\ UNCHANGED <<ovars, tmps, meta, metaTmp, origin>>

\* os.Rename of disk.raw.restoring to disk.raw.
RestoreSnapshotReplace(fail) ==
  /\ sp.at = "replace"
  /\ IF fail
       THEN /\ restoring' = NoFile
            /\ SReturn(sp.op, sp.name, "ReplaceDisk", sp.pre)
            /\ UNCHANGED disk
       ELSE /\ disk' = restoring
            /\ restoring' = NoFile
            /\ SReturn(sp.op, sp.name, NoErr, sp.pre)
  /\ UNCHANGED <<ovars, arts, tmps, meta, metaTmp, origin>>

\* A variant that passes an entry without a checksum.
VerifySnapshotPassesEmpty(n) ==
  /\ sp.at = "idle"
  /\ LET data == Load(meta)
         e == IF ~HasEntry(data, n) THEN "NotFound"
              ELSE IF GetSnapshot(data, n).Checksum = NoChecksum THEN NoErr
              ELSE IF arts[n] = NoFile THEN "ComputeChecksum"
              ELSE IF computeChecksum(arts[n]) # GetSnapshot(data, n).Checksum
                THEN "ChecksumMismatch"
              ELSE NoErr
     IN SReturn("VerifySnapshot", n, e, Persisted(Files))
  /\ UNCHANGED <<ovars, disk, restoring, arts, tmps, meta, metaTmp, origin>>

\* SnapshotManager.VerifySnapshot.
VerifySnapshot(n) ==
  /\ sp.at = "idle"
  /\ LET data == Load(meta)
         e == IF ~HasEntry(data, n) THEN "NotFound"
              ELSE IF GetSnapshot(data, n).Checksum = NoChecksum THEN "NoChecksum"
              ELSE IF arts[n] = NoFile THEN "ComputeChecksum"
              ELSE IF computeChecksum(arts[n]) # GetSnapshot(data, n).Checksum
                THEN "ChecksumMismatch"
              ELSE NoErr
     IN SReturn("VerifySnapshot", n, e, Persisted(Files))
  /\ UNCHANGED <<ovars, disk, restoring, arts, tmps, meta, metaTmp, origin>>

\* The entries other than those named n, in their order.
RECURSIVE WithoutName(_, _)
WithoutName(snaps, n) ==
  IF snaps = <<>> THEN <<>>
  ELSE IF Head(snaps).Name = n THEN WithoutName(Tail(snaps), n)
  ELSE <<Head(snaps)>> \o WithoutName(Tail(snaps), n)

\* A variant that does not pass over a missing artifact.
DeleteSnapshotBeginStrict(n, fail) ==
  /\ sp.at = "idle"
  /\ LET data == Load(meta)
         pre == Persisted(Files)
         e == IF ~HasEntry(data, n) THEN "NotFound"
              ELSE IF fail \/ arts[n] = NoFile THEN "DeleteSnapshotFile"
              ELSE NoErr
     IN IF e # NoErr
          THEN SReturn("DeleteSnapshot", n, e, pre) /\ UNCHANGED <<arts, origin>>
          ELSE /\ arts' = [arts EXCEPT ![n] = NoFile]
               /\ origin' = [origin EXCEPT ![n] = 0]
               /\ sp' = [at |-> "delete_save", op |-> "DeleteSnapshot", name |-> n,
                         data |-> WithoutName(data, n), checksum |-> NoChecksum,
                         pre |-> pre]
               /\ sret' = NoSret
  /\ UNCHANGED <<ovars, disk, restoring, tmps, meta, metaTmp>>

\* DeleteSnapshot up to the os.Remove of the artifact: Load, the entry is
\* looked for, the artifact is removed (a missing one is passed over).
DeleteSnapshotBegin(n, fail) ==
  /\ sp.at = "idle"
  /\ LET data == Load(meta)
         pre == Persisted(Files)
         e == IF ~HasEntry(data, n) THEN "NotFound"
              ELSE IF fail /\ arts[n] # NoFile THEN "DeleteSnapshotFile"
              ELSE NoErr
     IN IF e # NoErr
          THEN SReturn("DeleteSnapshot", n, e, pre) /\ UNCHANGED <<arts, origin>>
          ELSE /\ arts' = [arts EXCEPT ![n] = NoFile]
               /\ origin' = [origin EXCEPT ![n] = 0]
               /\ sp' = [at |-> "delete_save", op |-> "DeleteSnapshot", name |-> n,
                         data |-> WithoutName(data, n), checksum |-> NoChecksum,
                         pre |-> pre]
               /\ sret' = NoSret
  /\ UNCHANGED <<ovars, disk, restoring, tmps, meta, metaTmp>>

\* Save of the shortened list writes snapshots.json.tmp.
DeleteSnapshotSaveWrite(fail, left) ==
  /\ sp.at = "delete_save"
  /\ left \in {MetaNone, MetaPartial}
  /\ ~fail => left = MetaNone
  /\ IF fail
       THEN /\ metaTmp' = left
            /\ SReturn(sp.op, sp.name, "WriteSnapshotsTemp", sp.pre)
       ELSE /\ metaTmp' = MetaDoc(sp.data)
            /\ SnapStep("delete_rename")
  /\ UNCHANGED <<ovars, disk, restoring, arts, tmps, meta, origin>>

\* Save renames snapshots.json.tmp to snapshots.json.
DeleteSnapshotSaveRename(fail) ==
  /\ sp.at = "delete_rename"
  /\ IF fail
       THEN /\ metaTmp' = MetaNone
            /\ SReturn(sp.op, sp.name, "RenameSnapshots", sp.pre)
            /\ UNCHANGED meta
       ELSE /\ meta' = metaTmp
            /\ metaTmp' = MetaNone
            /\ SReturn(sp.op, sp.name, NoErr, sp.pre)
  /\ UNCHANGED <<ovars, disk, restoring, arts, tmps, origin>>

\* SnapshotManager.ListSnapshots and GetSnapshot: Load, nothing written.
ListSnapshots ==
  /\ sp.at = "idle"
  /\ SReturn("ListSnapshots", 0, NoErr, Persisted(Files))
  /\ UNCHANGED <<ovars, disk, restoring, arts, tmps, meta, metaTmp, origin>>

GetSnapshotCall(n) ==
  /\ sp.at = "idle"
  /\ SReturn("GetSnapshot", n,
             IF HasEntry(Load(meta), n) THEN NoErr ELSE "NotFound", Persisted(Files))
  /\ UNCHANGED <<ovars, disk, restoring, arts, tmps, meta, metaTmp, origin>>

\* SnapshotManager.HasPartialFiles.
HasPartialFiles(F) ==
  \/ \E n \in SnapshotNames : F.tmps[n] # NoFile
  \/ F.restoring # NoFile
  \/ F.metaTmp # MetaNone

\* CleanupPartial called on its own (at startup).
CleanupPartialCall ==
  /\ sp.at = "idle"
  /\ SetFiles(CleanupPartial(Files))
  /\ SReturn("CleanupPartial", 0, NoErr, Persisted(Files))
  /\ UNCHANGED <<ovars, origin>>

\* The process dies inside an operation; inside os.WriteFile it can leave
\* a part of snapshots.json.tmp.
Crash(left) ==
  /\ sp.at # "idle"
  /\ left \in {MetaNone, MetaPartial}
  /\ sp.at \notin {"save", "delete_save"} => left = MetaNone
  /\ metaTmp' = IF sp.at \in {"save", "delete_save"} THEN left ELSE metaTmp
  /\ SReturn(sp.op, sp.name, "Crash", sp.pre)
  /\ UNCHANGED <<ovars, disk, restoring, arts, tmps, meta, origin>>

\* The VM runs between snapshot operations and writes its disk (the disk
\* is made by ImageManager.EnsureDisk).
WriteDisk(c) ==
  /\ sp.at = "idle"
  /\ disk # Raw(c)
  /\ disk' = Raw(c)
  /\ sret' = NoSret
  /\ UNCHANGED <<ovars, restoring, arts, tmps, meta, metaTmp, sp, origin>>


\* Something other than the engine changes the bytes of a stored artifact.
ModifyArtifact(n, b) ==
  /\ sp.at = "idle"
  /\ arts[n] # NoFile
  /\ b # arts[n]
  /\ arts' = [arts EXCEPT ![n] = b]
  /\ sret' = NoSret
  /\ UNCHANGED <<ovars, disk, restoring, tmps, meta, metaTmp, sp, origin>>

\* A data directory before any snapshot operation of this process: no
\* snapshots, or one snapshot whose entry was recorded without a checksum
\* (by a version before checksum support).
SnapshotInit ==
  /\ DriverInit0
  /\ platform = "kvm"
  /\ ManagerInit0
  /\ val = NoVal
  /\ disk \in {NoFile} \cup {Raw(c) : c \in Contents}
  /\ restoring = NoFile
  /\ tmps = NoArtifacts
  /\ metaTmp = MetaNone
  /\ sp = SnapIdle
  /\ other = SnapIdle
  /\ er = NewEscapeReader
  /\ cli = NoCli
  /\ sret = NoSret
  /\ \/ /\ meta = MetaNone
        /\ arts = NoArtifacts
        /\ origin = [n \in SnapshotNames |-> 0]
     \/ \E c \in Contents :
          /\ meta = MetaDoc(<<SnapshotEntry(1, NoChecksum)>>)
          /\ arts = [NoArtifacts EXCEPT ![1] = Gzip(Raw(c))]
          /\ origin = [n \in SnapshotNames |-> IF n = 1 THEN c ELSE 0]

SnapshotNext ==
  \/ \E n \in SnapshotNames, fail \in BOOLEAN :
        (HasEntry(Load(meta), n) \/ LowestUnused(n)) /\ CreateSnapshotBegin(n, fail)
  \/ \E fail \in BOOLEAN : CreateSnapshotCompress(fail)
  \/ \E fail \in BOOLEAN : CreateSnapshotRename(fail)
  \/ \E fail \in BOOLEAN : CreateSnapshotChecksum(fail)
  \/ \E fail \in BOOLEAN, left \in {MetaNone, MetaPartial} : CreateSnapshotSaveWrite(fail, left)
  \/ \E fail \in BOOLEAN : CreateSnapshotSaveRename(fail)
  \/ \E n \in SnapshotNames, fail \in BOOLEAN : RestoreSnapshotBegin(n, fail)
  \/ \E fail \in BOOLEAN : RestoreSnapshotDecompress(fail)
  \/ \E fail \in BOOLEAN : RestoreSnapshotReplace(fail)
  \/ \E n \in SnapshotNames : VerifySnapshot(n)
  \/ CleanupPartialCall
  \/ \E left \in {MetaNone, MetaPartial} : Crash(left)
  \/ \E c \in Contents : WriteDisk(c)
  \/ \E n \in SnapshotNames, b \in {Gzip(Raw(c)) : c \in Contents} \cup
            {[k |-> "gzip_damaged", c |-> 0], [k |-> "junk", c |-> 0]} :
        ModifyArtifact(n, b)

SnapshotSpec == SnapshotInit /\ [][SnapshotNext]_vars

\* Two processes (two invocations of the program) use the SnapshotManager
\* of one VM at once: the process that runs is exchanged with the one that
\* waits.
Switch ==
  /\ sp.at # "idle" \/ other.at # "idle"
  /\ sp' = other
  /\ other' = sp
  /\ sret' = NoSret
  /\ UNCHANGED <<dvars, dret, mvars, pc, ret, calls, val,
                 disk, restoring, arts, tmps, meta, metaTmp, origin, er, cli>>

\* Creates and verifications of two processes, on different snapshot names,
\* every file operation succeeding.
ConcurrentNext ==
  \/ \E n \in SnapshotNames :
        (other.at = "idle" \/ other.name # n) /\ CreateSnapshotBegin(n, FALSE)
  \/ CreateSnapshotCompress(FALSE)
  \/ CreateSnapshotRename(FALSE)
  \/ CreateSnapshotChecksum(FALSE)
  \/ CreateSnapshotSaveWrite(FALSE, MetaNone)
  \/ CreateSnapshotSaveRename(FALSE)
  \/ \E n \in SnapshotNames :
        (other.at = "idle" \/ other.name # n) /\ VerifySnapshot(n)
  \/ Switch

ConcurrentSpec == SnapshotInit /\ [][ConcurrentNext]_vars

\* The catalogue of snapshots: every operation of the SnapshotManager,
\* DeleteSnapshot included, with failures of the file operations, in a
\* process that is not killed, on a disk that is not written and artifacts
\* that nothing else touches.
CatalogNext ==
  \/ \E n \in SnapshotNames, fail \in BOOLEAN :
        (HasEntry(Load(meta), n) \/ LowestUnused(n)) /\ CreateSnapshotBegin(n, fail)
  \/ \E fail \in BOOLEAN : CreateSnapshotCompress(fail)
  \/ \E fail \in BOOLEAN : CreateSnapshotRename(fail)
  \/ \E fail \in BOOLEAN : CreateSnapshotChecksum(fail)
  \/ \E fail \in BOOLEAN, left \in {MetaNone, MetaPartial} : CreateSnapshotSaveWrite(fail, left)
  \/ \E fail \in BOOLEAN : CreateSnapshotSaveRename(fail)
  \/ \E n \in SnapshotNames, fail \in BOOLEAN : RestoreSnapshotBegin(n, fail)
  \/ \E fail \in BOOLEAN : RestoreSnapshotDecompress(fail)
  \/ \E fail \in BOOLEAN : RestoreSnapshotReplace(fail)
  \/ \E n \in SnapshotNames : VerifySnapshot(n)
  \/ \E n \in SnapshotNames, fail \in BOOLEAN : DeleteSnapshotBegin(n, fail)
  \/ \E fail \in BOOLEAN, left \in {MetaNone, MetaPartial} : DeleteSnapshotSaveWrite(fail, left)
  \/ \E fail \in BOOLEAN : DeleteSnapshotSaveRename(fail)
  \/ ListSnapshots
  \/ \E n \in SnapshotNames : GetSnapshotCall(n)
  \/ CleanupPartialCall

CatalogSpec == SnapshotInit /\ [][CatalogNext]_vars

\* ---------------------------------------------------------------- claims
\* The platform VM (the VM process) has exited.
VMExited == vm.state \in {"Stopped", "Error"}

BeginsCall(t, at) == pc[t].at = "idle" /\ pc'[t].at = at

\* C1: Prepare is rejected unless the Manager state is New or Stopped,
\* Start unless Ready (and Driver.Start is invoked from no other state),
\* Stop unless Running, Kill unless Running or Stopping, Console unless
\* Running; a rejected call returns an error.
C1_Guards ==
  [][ /\ (ret'.op = "Prepare" /\ mstate \notin {"New", "Stopped"}) => ret'.err = "InvalidState"
      /\ (ret'.op = "Start" /\ mstate # "Ready") => ret'.err = "InvalidState"
      /\ "Driver.Start" \in calls' => mstate = "Ready"
      /\ (ret'.op = "Console" /\ mstate # "Running") => ret'.err = "VMNotRunning"
      /\ \A t \in Callers :
           /\ BeginsCall(t, "stop_call") => mstate = "Running"
           /\ BeginsCall(t, "kill_call") => mstate \in {"Running", "Stopping"}
      /\ (ret'.op \in {"Stop", "Kill"} /\ ret'.pre # Accepted) => ret'.err = "InvalidState"
    ]_vars

\* C1 witness: a Start attempted while the VM runs was rejected.
C1_Witness == ret.op = "Start" /\ ret.pre = "Running" /\ ret.err = "InvalidState"

\* C2: after a successful Start, a Wait call in progress returns once the
\* VM process has exited.
C2_WaitReturns ==
  \A t \in Callers : (pc[t].at = "wait" /\ VMExited) ~> (pc[t].at # "wait")

\* C3: after a successful Start, once the VM process has exited the
\* monitor eventually has recorded the shutdown event and set the Manager
\* state.
C3_MonitorRecords ==
  (errCh # 0 /\ VMExited)
    ~> (Len(monitor) >= 1 /\ monitor[1].pc = "done" /\ StateFileLoad(pstate).LastShutdown)

\* C4: every completion channel is sent to at most once, and only by the
\* watcher that its Start spawned.
C4_ResolvedAtMostOnce ==
  \A c \in 1..Len(chans) :
    /\ chans[c].sends <= 1
    /\ chans[c].sends = 1 => watchers[c].pc = "done"

\* C4 witness: a signal resolved after Stop or Kill cancelled its run.
C4_Witness ==
  \E c \in 1..Len(chans) : chans[c].sends = 1 /\ watchers[c].cancelled

\* C5: once the VM process of a started run has exited, the completion
\* signal of that run eventually resolves.
C5_SignalResolves ==
  \A c \in 1..MaxStarts :
    (/\ c \in 1..Len(chans)
     /\ IF platform = "kvm" THEN watchers[c].pc # "run" ELSE c = Len(chans) /\ VMExited)
      ~> (c \in 1..Len(chans) /\ chans[c].sends = 1)

\* C6 as claimed: the Driver's lifecycle state never moves to an earlier
\* stage.
C6_NeverBackward == [][stateRank(d'.state) >= stateRank(d.state)]_vars

\* C6 amended: the lifecycle state moves to an earlier stage only by a
\* Start accepted in Stopped (back to Running); Create from a state other
\* than New, Start from a state other than Created or Stopped, Stop or Kill
\* from a state other than Running return an error and leave the state
\* unchanged.
C6_ForwardExceptRestart ==
  [][ /\ stateRank(d'.state) < stateRank(d.state)
           => (d.state = "Stopped" /\ d'.state = "Running"
               /\ dret'.op = "Start" /\ dret'.err = NoErr)
      /\ (dret'.op = "Create" /\ dret'.pre # "New")
           => (dret'.err # NoErr /\ d'.state = d.state)
      /\ (dret'.op = "Start" /\ dret'.pre \notin {"Created", "Stopped"})
           => (dret'.err # NoErr /\ d'.state = d.state)
      /\ (dret'.op \in {"Stop", "Kill"} /\ dret'.pre # "Running")
           => (dret'.err # NoErr /\ d'.state = d.state)
    ]_vars

\* C6 witness: a Start accepted in Stopped has put the Driver back in
\* Running.
C6_Witness ==
  dret.op = "Start" /\ dret.pre = "Stopped" /\ dret.err = NoErr /\ d.state = "Running"

\* C7: a Prepare made in Stopped, with assets, disk and platform calls
\* succeeding, ends in Ready.
C7_PrepareAgain ==
  (ret.op = "Prepare" /\ ret.pre = "Stopped" /\ ret.envOK)
    => (ret.err = NoErr /\ mstate = "Ready")

\* C8: with Stop requested and the VM not exited (Manager state Stopping),
\* the Driver's Kill does not fail, unless the platform's own force-stop
\* call fails.
C8_KillFallback ==
  [][ (dret'.op = "Kill" /\ mstate = "Stopping" /\ ~VMExited)
        => dret'.err \in {NoErr, "ForceStop"} ]_vars

\* C9: a Prepare, Start, Stop or Kill rejected for the Manager's state
\* changes nothing and invokes no collaborator.
C9_RejectedNoEffect ==
  [][ (ret'.op \in {"Prepare", "Start", "Stop", "Kill"} /\ ret'.err = "InvalidState")
        => /\ mstate' = mstate /\ lastErr' = lastErr /\ errCh' = errCh
           /\ pstate' = pstate /\ monitor' = monitor /\ fs' = fs
           /\ calls' = {} /\ dret' = NoDret
           /\ UNCHANGED <<d, vm, chans, watchers>>
    ]_vars

\* C9 witness: a Prepare was rejected while the VM was running, after a
\* boot had been recorded.
C9_Witness ==
  /\ ret.op = "Prepare" /\ ret.err = "InvalidState" /\ ret.pre = "Running"
  /\ StateFileLoad(pstate).BootCount = 1 /\ errCh # 0

\* C10: when a Manager call returns the failure of a Driver call, the
\* Manager is in Error with that error retained, and it is still in Error
\* after the next step.
C10_ErrorAfterDriverFailure ==
  [][ (ret.op \in {"Prepare", "Start", "Stop", "Kill"} /\ ret.err \in
        {"ErrInvalidCPUCount", "ErrInsufficientMemory", "ErrMissingKernel",
        "ErrInvalidNetworkMode", "KernelNotFound", "InvalidStateForCreate", "ReadKernel",
        "ReadInitrd", "CreateInputPipe", "CreateOutputPipe", "OpenDisk", "CreateVM",
        "CreateConfig", "CreateDevice", "ErrNotCreated", "StartVM", "ErrNotRunning",
        "CheckCanStop", "RequestStopFailed", "ForceStop"})
        => (mstate = "Error" /\ lastErr = ret.err /\ mstate' = "Error") ]_vars

\* C11: every VMConfig the Manager hands to Driver.Create has at least one
\* CPU and at least 128 MiB of memory.
C11_CreateGetsValidConfig ==
  (ret.op = "Prepare" /\ dret.op = "Create")
    => (dret.cfg.CPUs >= 1 /\ dret.cfg.MemoryMB >= MinMemoryMB)

C13_ValidatePure ==
  [][ val'.called => (val'.cfg = val.cfg /\ UNCHANGED <<d, vm, chans, watchers>>) ]_vars

\* C14: a Prepare made when the warm-path condition holds downloads,
\* extracts and creates nothing, does not call Validate, calls Create as
\* its only Driver method, and ends in Ready when Create succeeds.
C14_WarmPath ==
  [][ (ret'.op = "Prepare" /\ mstate \in {"New", "Stopped"} /\ isWarmPath(provider, fs))
        => /\ ret'.path = "warm"
           /\ fs' = fs
           /\ calls' \cap {"Assets.EnsureAssets", "Images.EnsureDisk", "Driver.Validate"} = {}
           /\ "Driver.Create" \in calls' /\ dret'.op = "Create"
           /\ (dret'.err = NoErr => mstate' = "Ready")
    ]_vars

\* C14 witness: a warm Prepare has ended in Ready.
C14_Witness ==
  ret.op = "Prepare" /\ ret.path = "warm" /\ ret.err = NoErr /\ mstate = "Ready"

\* C15: Prepare takes the warm path exactly when the required assets are
\* on disk and the image is there: the rootfs image for a distro that
\* needs no extraction, the created disk for one that does.
C15_WarmExactlyWhen ==
  [][ (ret'.op = "Prepare" /\ mstate \in {"New", "Stopped"})
        => (ret'.path = "warm"
              <=> /\ EnsureAssets(provider, fs, "none").fs = fs
                  /\ IF provider.NeedsExtraction
                       THEN DiskExists(fs)
                       ELSE ("rootfs" \o provider.RootfsExt) \in fs)
    ]_vars

\* A step of RestoreSnapshot ended the call without error: the rename of
\* disk.raw.restoring to disk.raw was made.
RestoreReplaced == sret'.op = "RestoreSnapshot" /\ sret'.err = NoErr

\* C16: RestoreSnapshot replaces the live disk only when the checksum
\* recomputed over the artifact equals the checksum its entry records, for
\* every entry of the metadata document, one recorded without a checksum
\* included.
C16_RestoreVerified ==
  [][ RestoreReplaced
        => computeChecksum(arts[sret'.name])
             = GetSnapshot(Load(meta), sret'.name).Checksum ]_vars

\* C17: a RestoreSnapshot that ends with an error leaves the live disk with
\* the content it had before the call; a step of RestoreSnapshot changes the
\* live disk only by the final rename, and then disk.raw.restoring holds the
\* whole decompressed artifact.
C17_FailedRestoreKeepsDisk ==
  [][ /\ (sret'.op = "RestoreSnapshot" /\ sret'.err # NoErr)
           => disk' = sret'.pre.disk
      /\ ((sp.op = "RestoreSnapshot" \/ sp'.op = "RestoreSnapshot"
             \/ sret'.op = "RestoreSnapshot") /\ disk' # disk)
           => /\ sp.at = "replace"
              /\ GunzipOK(arts[sp.name])
              /\ restoring = Gunzip(arts[sp.name])
              /\ disk' = restoring ]_vars

\* A restore failed after it had begun to write disk.raw.restoring, on a VM
\* that has a live disk.
C17_Witness ==
  /\ sret.op = "RestoreSnapshot"
  /\ sret.err \in {"DecompressSnapshot", "ReplaceDisk"}
  /\ disk # NoFile

\* The stored artifact of n has other bytes than it was created with.
ArtifactModified(n) == origin[n] # 0 /\ arts[n] # NoFile /\ arts[n] # Gzip(Raw(origin[n]))

\* C18: VerifySnapshot succeeds on every snapshot whose artifact has the
\* bytes it was created with; on a snapshot whose artifact has other bytes
\* VerifySnapshot and RestoreSnapshot both return a corruption error.
C18_VerifyDetects ==
  [][ /\ (sret'.op = "VerifySnapshot" /\ HasEntry(Load(meta), sret'.name)
            /\ origin[sret'.name] # 0
            /\ arts[sret'.name] = Gzip(Raw(origin[sret'.name])))
           => sret'.err = NoErr
      /\ (sret'.op \in {"VerifySnapshot", "RestoreSnapshot"} /\ sret'.err # "Crash"
            /\ HasEntry(Load(meta), sret'.name) /\ ArtifactModified(sret'.name))
           => sret'.err \in {"ChecksumMismatch", "SnapshotCorrupted"} ]_vars

\* C19: a successful RestoreSnapshot of a snapshot that CreateSnapshot
\* recorded (its entry has a checksum) leaves the live disk with the content
\* it had when the snapshot was created, whatever was written to the disk
\* in between.
C19_RoundTrip ==
  [][ (RestoreReplaced
         /\ GetSnapshot(Load(meta), sret'.name).Checksum # NoChecksum)
        => disk' = Raw(origin[sret'.name]) ]_vars

\* A snapshot made by CreateSnapshot was restored over a disk that had
\* been written since.
C19_Witness ==
  /\ sret.op = "RestoreSnapshot"
  /\ sret.err = NoErr
  /\ GetSnapshot(Load(meta), sret.name).Checksum # NoChecksum
  /\ sret.pre.disk # disk

\* C20: after a CreateSnapshot or RestoreSnapshot that failed or was cut
\* short by a crash, and CleanupPartial, the live disk, the artifacts and
\* the metadata document are those of before the operation or those of the
\* completed operation.
C20_AllOrNothing ==
  (sret.op \in {"CreateSnapshot", "RestoreSnapshot"} /\ sret.err # NoErr)
    => LET P == Persisted(CleanupPartial(Files))
       IN \/ P = sret.pre
          \/ /\ sret.op = "CreateSnapshot"
             /\ P = [disk |-> sret.pre.disk,
                     arts |-> [sret.pre.arts EXCEPT ![sret.name] = Gzip(sret.pre.disk)],
                     meta |-> MetaDoc(Append(Load(sret.pre.meta),
                                SnapshotEntry(sret.name,
                                              computeChecksum(Gzip(sret.pre.disk)))))]
          \/ /\ sret.op = "RestoreSnapshot"
             /\ P = [sret.pre EXCEPT !.disk = Gunzip(sret.pre.arts[sret.name])]

\* C21: CreateSnapshot computes the checksum over the finished temporary
\* artifact, before the rename to the final name, and rewrites the metadata
\* document only when the artifact has its final name.
C21_ChecksumBeforeRename ==
  [][ /\ (sp.op = "CreateSnapshot" /\ sp'.checksum # sp.checksum)
           => /\ tmps[sp.name].k = "gzip"
              /\ sp'.checksum = computeChecksum(tmps[sp.name])
      /\ (sp.op = "CreateSnapshot" /\ meta' # meta)
           => arts[sp.name] # NoFile ]_vars

\* C24: CreateSnapshot with a name that has an entry returns the
\* duplicate-name error and leaves the metadata document and the artifacts
\* as they are.
C24_DuplicateRejected ==
  [][ (sret'.op = "CreateSnapshot" /\ HasEntry(Load(meta), sret'.name))
        => (sret'.err = "AlreadyExists" /\ meta' = meta /\ arts' = arts) ]_vars

\* C24 as the code has it: the live disk is looked for first, so the
\* duplicate-name error is returned when disk.raw exists and the disk-not-
\* found error when it does not; nothing is changed either way.
C24_DuplicateRejectedAmended ==
  [][ (sret'.op = "CreateSnapshot" /\ HasEntry(Load(meta), sret'.name))
        => /\ sret'.err = IF disk = NoFile THEN "DiskNotFound" ELSE "AlreadyExists"
           /\ meta' = meta /\ arts' = arts /\ disk' = disk ]_vars

\* A create was refused for its name while the artifact of that name is
\* stored.
C24_Witness ==
  /\ sret.op = "CreateSnapshot"
  /\ sret.err = "AlreadyExists"
  /\ arts[sret.name] # NoFile

\* C26: VerifySnapshot on an entry without a recorded checksum returns the
\* "no checksum" error, whatever the artifact holds.
C26_NoChecksumReported ==
  [][ (sret'.op = "VerifySnapshot" /\ HasEntry(Load(meta), sret'.name)
         /\ GetSnapshot(Load(meta), sret'.name).Checksum = NoChecksum)
        => sret'.err = "NoChecksum" ]_vars

\* VerifySnapshot ran on an entry without a checksum whose artifact had
\* been modified.
C26_Witness ==
  /\ sret.op = "VerifySnapshot"
  /\ sret.err = "NoChecksum"
  /\ ArtifactModified(sret.name)

\* The entries of snaps whose name is not n.
OtherEntries(snaps, n) ==
  LET Other(e) == e.Name # n IN SelectSeq(snaps, Other)

\* C25: a DeleteSnapshot that succeeds has removed the entry of that name
\* and its artifact and nothing else; a missing artifact does not make it
\* fail; on a name without an entry it returns the not-found error and
\* changes no file.
C25_DeleteExactly ==
  [][ sret'.op = "DeleteSnapshot" =>
        LET n == sret'.name
            pre == sret'.pre
        IN /\ sret'.err = NoErr
                => /\ HasEntry(Load(pre.meta), n)
                   /\ Load(meta') = OtherEntries(Load(pre.meta), n)
                   /\ arts' = [pre.arts EXCEPT ![n] = NoFile]
                   /\ disk' = pre.disk
           /\ (HasEntry(Load(pre.meta), n) /\ pre.arts[n] = NoFile)
                => sret'.err \notin {"NotFound", "DeleteSnapshotFile"}
           /\ ~HasEntry(Load(pre.meta), n)
                => /\ sret'.err = "NotFound"
                   /\ UNCHANGED <<disk, restoring, arts, tmps, meta, metaTmp>> ]_vars

\* A delete succeeded on an entry whose artifact was already missing,
\* another snapshot staying in place.
C25_Witness ==
  /\ sret.op = "DeleteSnapshot"
  /\ sret.err = NoErr
  /\ sret.pre.arts[sret.name] = NoFile
  /\ Len(Load(meta)) >= 1
  /\ \E m \in SnapshotNames : arts[m] # NoFile

ResultOf(op, n, P) ==
  LET data == Load(P.meta)
      a == P.arts[n]
      sum == GetSnapshot(data, n).Checksum
  IN CASE op = "CreateSnapshot" ->
            IF P.disk = NoFile THEN "DiskNotFound"
            ELSE IF HasEntry(data, n) THEN "AlreadyExists" ELSE NoErr
       [] op = "RestoreSnapshot" ->
            IF ~HasEntry(data, n) THEN "NotFound"
            ELSE IF sum # NoChecksum /\ a = NoFile THEN "VerifyChecksum"
            ELSE IF sum # NoChecksum /\ computeChecksum(a) # sum THEN "SnapshotCorrupted"
            ELSE IF a = NoFile THEN "OpenSnapshot"
            ELSE IF ~GzipHeaderOK(a) THEN "OpenGzip"
            ELSE IF ~GunzipOK(a) THEN "DecompressSnapshot"
            ELSE NoErr
       [] op = "VerifySnapshot" ->
            IF ~HasEntry(data, n) THEN "NotFound"
            ELSE IF sum = NoChecksum THEN "NoChecksum"
            ELSE IF a = NoFile THEN "ComputeChecksum"
            ELSE IF computeChecksum(a) # sum THEN "ChecksumMismatch"
            ELSE NoErr
       [] OTHER -> NoErr

\* C23: CleanupPartial removes the temporary artifacts, disk.raw.restoring
\* and snapshots.json.tmp and nothing else, and HasPartialFiles is false
\* after it; what a later operation returns does not depend on such
\* leftovers: a CreateSnapshot of the name of an interrupted create
\* succeeds.
C23_LeftoversHarmless ==
  [][ /\ sret'.op = "CleanupPartial"
           => /\ tmps' = NoArtifacts /\ restoring' = NoFile /\ metaTmp' = MetaNone
              /\ UNCHANGED <<disk, arts, meta>>
              /\ ~HasPartialFiles(Files')
      /\ (sret'.op \in {"CreateSnapshot", "RestoreSnapshot", "VerifySnapshot"}
            /\ sret'.err \notin
                 {"CreateSnapshotFile", "CompressDisk", "FinalizeSnapshot",
                  "ComputeChecksum", "WriteSnapshotsTemp", "RenameSnapshots",
                  "CreateTempDisk", "DecompressSnapshot", "ReplaceDisk",
                  "DeleteSnapshotFile", "Crash"})
           => sret'.err = ResultOf(sret'.op, sret'.name, sret'.pre)
      /\ (sp.at = "idle" /\ sp'.op \in {"CreateSnapshot", "RestoreSnapshot"})
           => ~HasPartialFiles([Files' EXCEPT !.tmps[sp'.name] = NoFile,
                                              !.restoring = NoFile]) ]_vars

\* A create succeeded under the name of a create that was interrupted
\* after its artifact had its final name.
C23_Witness ==
  /\ sret.op = "CreateSnapshot"
  /\ sret.err = NoErr
  /\ sret.pre.arts[sret.name] # NoFile

\* C22: with two operations at once on different names, each returns what
\* it would return alone (in one of the two orders: nothing a create or a
\* verify looks at is changed by an operation on another name); a create
\* that reports success has its entry in the metadata document, with an
\* artifact whose checksum is the recorded one; the entry stays there.
C22_ConcurrentSafe ==
  [][ /\ sret'.op \in {"CreateSnapshot", "VerifySnapshot"}
           => sret'.err = ResultOf(sret'.op, sret'.name, sret'.pre)
      /\ (sret'.op = "CreateSnapshot" /\ sret'.err = NoErr)
           => /\ HasEntry(Load(meta'), sret'.name)
              /\ arts'[sret'.name] # NoFile
              /\ GetSnapshot(Load(meta'), sret'.name).Checksum
                   = computeChecksum(arts'[sret'.name])
      /\ \A m \in SnapshotNames :
           HasEntry(Load(meta), m) => HasEntry(Load(meta'), m) ]_vars

\* C28: once the Driver is Running, only a watcher takes it out of Running
\* (to Stopped, at its d.state = stateStopped), each Start adds exactly one
\* watcher, and the Driver is not Stopped while the platform VM still runs.
C28_OnlyWatcherStops ==
  [][ /\ (d.state = "Running" /\ d'.state # "Running")
           => /\ d'.state = "Stopped"
              /\ \E c \in 1..Len(watchers) :
                   watchers[c].pc = "lock" /\ watchers'[c].pc = "send"
      /\ (dret'.op = "Start" /\ dret'.err = NoErr)
           => Len(watchers') = Len(watchers) + 1
      /\ d'.state = "Stopped" => vm'.state # "Running" ]_vars

\* C29: a Create that fails on a New Driver leaves it New, with no console
\* pipe and no disk file open, and Console still reports no console.
C29_FailedCreateReleases ==
  [][ (dret'.op = "Create" /\ dret'.pre = "New" /\ dret'.err # NoErr)
        => /\ d'.state = "New"
           /\ ~d'.consoleIn /\ ~d'.consoleOut /\ ~d'.diskFile
           /\ DriverConsole([d |-> d', vm |-> vm', chans |-> chans',
                             watchers |-> watchers']) = "ConsoleNotInitialized" ]_vars

\* C30: CloseConsole closes each pipe end at most once, whatever it runs
\* between; a CloseConsole after an earlier one on the same pipes closes
\* nothing, returns no error and leaves the Driver as the first call left it.
C30_CloseConsoleIdempotent ==
  [][ /\ d'.inputWriterCloses <= 1
      /\ d'.outputReaderCloses <= 1
      /\ dret'.op = "CloseConsole"
           => /\ ~d'.consoleIn /\ ~d'.consoleOut
              /\ d'.state = d.state /\ d'.diskFile = d.diskFile
              /\ d.closeConsoleCalls >= 1
                   => /\ dret'.err = NoErr
                      /\ d'.inputWriterCloses = d.inputWriterCloses
                      /\ d'.outputReaderCloses = d.outputReaderCloses ]_vars

\* A second CloseConsole returned on pipes the first one closed, the Driver
\* Running.
C30_Witness ==
  /\ dret.op = "CloseConsole"
  /\ dret.err = NoErr
  /\ dret.pre = "Running"
  /\ d.closeConsoleCalls = 2
  /\ d.inputWriterCloses = 1
  /\ d.outputReaderCloses = 1

\* C37: a DeleteSnapshot that returns an error on a snapshot that had its
\* entry and its artifact leaves the metadata document and the artifact as
\* they were.
C37_FailedDeleteKeepsBoth ==
  [][ (/\ sret'.op = "DeleteSnapshot" /\ sret'.err # NoErr
       /\ HasEntry(Load(sret'.pre.meta), sret'.name)
       /\ sret'.pre.arts[sret'.name] # NoFile)
        => /\ meta' = sret'.pre.meta
           /\ arts'[sret'.name] = sret'.pre.arts[sret'.name] ]_vars

C36_ErrorIsFinal ==
  [][ mstate = "Error" => (mstate' = "Error" /\ lastErr' # NoErr) ]_vars

\* C38: the Manager is Ready only with the Driver Created, Running only
\* with the Driver Running or with the watcher of the run past vm.Run (it
\* has seen the VM exit), and not Ready, Running or Stopping with the
\* Driver New.
C38_ManagerMatchesDriver ==
  /\ mstate = "Ready" => d.state = "Created"
  /\ mstate = "Running"
       => \/ d.state = "Running"
          \/ errCh \in 1..Len(watchers) /\ watchers[errCh].pc # "run"
  /\ mstate \in {"Ready", "Running", "Stopping"} => d.state # "New"

\* C31 as claimed: every successful Manager.Start has increased the
\* persisted boot count by one and cleared the clean-shutdown flag.
C31_StartCounts ==
  [][ (ret'.op = "Start" /\ ret'.err = NoErr)
        => /\ StateFileLoad(pstate').BootCount = StateFileLoad(pstate).BootCount + 1
           /\ ~StateFileLoad(pstate').CleanShutdown ]_vars

\* C31: a successful Manager.Start either leaves state.json as it was (the
\* file could not be read or rewritten) or has increased the boot count by
\* one, cleared the clean-shutdown flag and set the last-boot time; a
\* shutdown that is recorded sets the last-shutdown time and the flag to
\* whether the run ended without error; neither changes another field, no
\* other step changes the file, and a later Manager loads the same values.
C31_StartCountsWhenRecorded ==
  [][ LET old == StateFileLoad(pstate)
          new == StateFileLoad(pstate')
      IN /\ pstate' # pstate
              => \/ /\ ret'.op = "Start" /\ ret'.err = NoErr
                    /\ new = [old EXCEPT !.BootCount = @ + 1, !.CleanShutdown = FALSE,
                                         !.LastBoot = TRUE]
                 \/ /\ "StateFile.RecordShutdown" \in calls'
                    /\ \E i \in 1..Len(monitor) :
                         /\ monitor[i].pc = "recv" /\ monitor'[i].pc = "lock"
                         /\ new = [old EXCEPT !.LastShutdown = TRUE,
                                     !.CleanShutdown = (monitor'[i].err = NoErr)]
         /\ StateFileLoad(StateFileSave(new)) = new ]_vars

\* A Manager started on the state file of an earlier run, and the boot was
\* recorded.
C31_Witness ==
  /\ ret.op = "Start"
  /\ ret.err = NoErr
  /\ StateFileLoad(pstate).BootCount = 2
  /\ ~StateFileLoad(pstate).CleanShutdown
  /\ StateFileLoad(pstate).LastShutdown
  /\ StateFileLoad(pstate).KernelVersion = "6.1"

\* ------------------------------------------------------- the EscapeReader
\* The loop of EscapeReader.Read over p[0:n], from index i (counted from 1
\* here) with writeIdx bytes written back into p so far.  An escape
\* character is counted and held back, the count starting again when the
\* previous one is older than EscapeTimeout; at EscapeCount the loop ends.
\* Any other byte is written at writeIdx after the held escape characters,
\* each write only when writeIdx < len(p).
RECURSIVE EscapeScan(_, _, _, _, _, _)
EscapeScan(p, n, i, writeIdx, escapeCount, late) ==
  IF i > n
    THEN [p |-> p, writeIdx |-> writeIdx, escapeCount |-> escapeCount,
          escaped |-> FALSE]
    ELSE IF p[i] = EscapeChar
      THEN LET count == (IF escapeCount > 0 /\ late /\ i = 1 THEN 0 ELSE escapeCount) + 1
           IN  IF count >= EscapeCount
                 THEN [p |-> p, writeIdx |-> writeIdx, escapeCount |-> count,
                       escaped |-> TRUE]
                 ELSE EscapeScan(p, n, i + 1, writeIdx, count, late)
      ELSE LET b == p[i]
               w1 == IF writeIdx + escapeCount < Len(p)
                       THEN writeIdx + escapeCount ELSE Len(p)
               p1 == [j \in 1..Len(p) |->
                        IF j > writeIdx /\ j <= w1 THEN EscapeChar
                        ELSE IF j = w1 + 1 THEN b ELSE p[j]]
           IN  EscapeScan(p1, n, i + 1, IF w1 < Len(p) THEN w1 + 1 ELSE w1, 0, late)

\* EscapeReader.Read(p) with len(p) = plen: the terminal supplies chunk (no
\* byte and io.EOF when chunk is empty), the first byte later than
\* EscapeTimeout after the previous escape character when late.
EscapeRead(chunk, plen, late) ==
  /\ Len(chunk) <= plen
  /\ Len(er.in) + Len(chunk) <= MaxInput
  /\ late => chunk # <<>> /\ chunk[1] = EscapeChar /\ er.escapeCount > 0
  /\ LET p == chunk \o [j \in 1..(plen - Len(chunk)) |-> 0]
         r == EscapeScan(p, Len(chunk), 1, 0, er.escapeCount, late)
     IN  er' = IF chunk = <<>>
                 THEN [er EXCEPT !.n = 0, !.err = "EOF"]
                 ELSE [escapeCount |-> r.escapeCount,
                       escapedOnce |-> er.escapedOnce \/ r.escaped,
                       closes |-> IF r.escaped /\ ~er.escapedOnce
                                    THEN er.closes + 1 ELSE er.closes,
                       in |-> er.in \o [j \in 1..Len(chunk) |->
                                          [b |-> chunk[j], late |-> late /\ j = 1]],
                       out |-> er.out \o SubSeq(r.p, 1, r.writeIdx),
                       n |-> r.writeIdx,
                       err |-> IF r.escaped /\ r.writeIdx = 0 THEN "EOF" ELSE NoErr]
  /\ UNCHANGED <<dvars, dret, mvars, pc, ret, calls, val, svars, other, cli>>

\* Successive Reads, on buffers of every size, of chunks of the escape
\* character and two other bytes.
EscapeNext ==
  \E plen \in 1..MaxBuf, late \in BOOLEAN :
    \E chunk \in UNION {[1..k -> {EscapeChar, 97, 98}] : k \in 0..plen} :
      EscapeRead(chunk, plen, late)

EscapeSpec == DriverInit /\ [][EscapeNext]_vars

\* C34: as long as the terminal has supplied no two consecutive escape
\* characters within the timeout, the bytes the Reads have delivered,
\* followed by the escape characters still held back, are the bytes the
\* terminal supplied.
C34_PassThrough ==
  (\A i \in 1..(Len(er.in) - 1) :
      ~(er.in[i].b = EscapeChar /\ er.in[i + 1].b = EscapeChar /\ ~er.in[i + 1].late))
    => er.out \o [j \in 1..er.escapeCount |-> EscapeChar]
         = [j \in 1..Len(er.in) |-> er.in[j].b]

\* C35: once the terminal has supplied two consecutive escape characters
\* within the timeout, the escaped channel has been closed exactly once and
\* the Reads have delivered exactly the bytes supplied before the pair; the
\* Read that reads the pair returns them or end-of-stream, and every later
\* Read returns no byte and end-of-stream.
C35_DoubleEscapeEnds ==
  [][ LET Pairs(s) == {i \in 1..(Len(s) - 1) :
                         s[i].b = EscapeChar /\ s[i + 1].b = EscapeChar /\ ~s[i + 1].late}
      IN  Pairs(er'.in) # {} =>
            LET first == CHOOSE i \in Pairs(er'.in) : \A k \in Pairs(er'.in) : i <= k
            IN  /\ er'.closes = 1
                /\ er'.out = [j \in 1..(first - 1) |-> er'.in[j].b]
                /\ Pairs(er.in) = {} => (er'.err = "EOF" \/ er'.n > 0)
                /\ Pairs(er.in) # {} => (er'.err = "EOF" /\ er'.n = 0) ]_vars

\* ------------------------------------------ the run and restore commands
\* The chain both running checks share: os.ReadFile of vm.pid, Sscanf("%d")
\* of its bytes (ASCII; the PIDs here have one digit), os.FindProcess and
\* Process.Signal(sig), TRUE when every step returns a nil error.  Signal
\* returns nil for syscall.Signal(0) when the process is alive; for a value
\* that is no syscall.Signal, as os.Signal(nil), it returns "unsupported
\* signal type" whatever the process.
PidSignal(f, sig, live) ==
  /\ f.exists
  /\ f.data # <<>> /\ f.data[1] \in 48..57
  /\ sig = "syscall.Signal(0)"
  /\ f.data[1] - 48 \in live

\* isVMRunning of the run command.
isVMRunning(c, live) == PidSignal(c.pidFile, "syscall.Signal(0)", live)

\* isSnapshotVMRunning of the snapshot commands: the PID file, then the
\* .running lock file.
isSnapshotVMRunning(c, live) ==
  \/ PidSignal(c.pidFile, "os.Signal(nil)", live)
  \/ c.lockFile

\* The run command as process p (its PID), step by step: the running check;
\* mgr.Prepare and mgr.Start (ok: the VM boots); writePIDFile, whose failure
\* is a warning; the shutdown with the deferred cleanupPIDFile.  A process
\* can also be killed, and then removes nothing.
runRun(p, ok) ==
  /\ LET live == {q \in 1..NumRuns : cli.run[q] \in {"checked", "booted", "running"}}
     IN  \/ /\ cli.run[p] = "idle" /\ ok
            /\ \A q \in 1..(p - 1) : cli.run[q] # "idle"
            /\ cli' = [cli EXCEPT !.run[p] =
                         IF isVMRunning(cli, live) THEN "refused" ELSE "checked"]
         \/ /\ cli.run[p] = "checked"
            /\ cli' = [cli EXCEPT !.run[p] = IF ok THEN "booted" ELSE "failed"]
         \/ /\ cli.run[p] = "booted"
            /\ cli' = [cli EXCEPT !.run[p] = "running",
                                  !.pidFile = IF ok THEN [exists |-> TRUE, data |-> <<48 + p>>]
                                              ELSE @]
         \/ /\ cli.run[p] = "running" /\ ok
            /\ cli' = [cli EXCEPT !.run[p] = "exited",
                                  !.pidFile = [exists |-> FALSE, data |-> <<>>]]
         \/ /\ cli.run[p] \in {"checked", "booted", "running"} /\ ~ok
            /\ cli' = [cli EXCEPT !.run[p] = "killed"]
  /\ UNCHANGED <<dvars, dret, mvars, pc, ret, calls, val, svars, other, er>>

\* The snapshot restore command up to its call of mgr.RestoreSnapshot: the
\* running check.
runSnapshotRestore ==
  /\ cli.restore = "idle"
  /\ LET live == {q \in 1..NumRuns : cli.run[q] \in {"checked", "booted", "running"}}
     IN  cli' = [cli EXCEPT !.restore =
                   IF isSnapshotVMRunning(cli, live) THEN "refused" ELSE "checked"]
  /\ UNCHANGED <<dvars, dret, mvars, pc, ret, calls, val, svars, other, er>>

\* A data directory with a disk and one snapshot; no vm.pid, or one left
\* with bytes that are no number; a .running file left behind or not.
CliInit ==
  /\ DriverInit0
  /\ platform = "kvm"
  /\ ManagerInit0
  /\ val = NoVal
  /\ \E c \in Contents : disk = Raw(c)
  /\ restoring = NoFile
  /\ tmps = NoArtifacts
  /\ metaTmp = MetaNone
  /\ sp = SnapIdle
  /\ other = SnapIdle
  /\ sret = NoSret
  /\ meta = MetaDoc(<<SnapshotEntry(1, NoChecksum)>>)
  /\ arts = [NoArtifacts EXCEPT ![1] = Gzip(Raw(1))]
  /\ origin = [n \in SnapshotNames |-> IF n = 1 THEN 1 ELSE 0]
  /\ er = NewEscapeReader
  /\ \E data \in {<<>>, <<110, 111>>}, lock \in BOOLEAN :
        cli = [pidFile |-> [exists |-> data # <<>>, data |-> data], lockFile |-> lock,
               run |-> [p \in 1..NumRuns |-> "idle"], restore |-> "idle"]

\* Run commands and one restore command, whose RestoreSnapshot runs once
\* its check has passed.
CliNext ==
  \/ \E p \in 1..NumRuns, ok \in BOOLEAN : runRun(p, ok)
  \/ runSnapshotRestore
  \/ /\ cli.restore = "checked" /\ sret.op # "RestoreSnapshot"
     /\ \E n \in SnapshotNames, fail \in BOOLEAN : RestoreSnapshotBegin(n, fail)
  \/ \E fail \in BOOLEAN : RestoreSnapshotDecompress(fail)
  \/ \E fail \in BOOLEAN : RestoreSnapshotReplace(fail)

CliSpec == CliInit /\ [][CliNext]_vars

\* C32: while a run process has the VM booted, no step changes the live
\* disk, and a restore command started then is refused by its check.
C32_NoRestoreWhileRunning ==
  [][ (\E p \in 1..NumRuns : cli.run[p] \in {"booted", "running"})
        => /\ disk' = disk
           /\ (cli.restore = "idle" /\ cli'.restore # "idle")
                => cli'.restore = "refused" ]_vars

\* C33: at most one run process has the VM booted.
C33_OneBootedRun ==
  Cardinality({p \in 1..NumRuns : cli.run[p] \in {"booted", "running"}}) <= 1
====
